---- MODULE Spec2Model ----
(***************************************************************************)
(* The workspace driver of the language server (crates/rhai-lsp world.rs)  *)
(* over the HIR (crates/rhai-hir hir.rs, crates/hir add/def.rs): documents *)
(* are added to and removed from a workspace, definition documents declare *)
(* custom operators, and scripts are reparsed when the operator set        *)
(* changes.                                                                *)
(***************************************************************************)
EXTENDS Integers, Sequences, FiniteSets, TLC

VARIABLES
    documents,          \* Workspace.documents: IndexMap<Url, Document>, as a sequence of entries
    hir,                \* Workspace.hir: the sources arena with the Op symbols each source owns
    custom_operators,   \* Workspace.custom_operators: HashSet<(String, Type, Type, (u8, u8))>
    last,               \* history: the last handler that ran, its input, and what it did
    symbols,            \* Hir.symbols: SlotMap<Symbol, SymbolData>, handle -> data
    result,             \* history: the last hir[symbol] evaluated and what it returned
    lock,               \* WorldState.workspaces: the guards held on the AsyncRwLock
    pc,                 \* per task: where it is in its handler
    work,               \* the locals of the handler that holds the write guard
    serial,             \* history: the requests run one after another, in guard order
    store,              \* Hir: the arenas of modules, scopes, symbols, sources and types
    built,              \* history: the last operation on the store and what it was given
    lexer,              \* Lexer: the input, the position in it, the tokens yielded, and the last call
    load,               \* history: the last load_all_files, its environment and its calls
    spaces,             \* Workspaces: the IndexMap of workspaces by root URL, and the last lookup
    classified          \* history: the last SyntaxKind asked for is_reserved_keyword and the answer

wsVars == <<documents, hir, custom_operators, last>>

symVars == <<symbols, result>>

concVars == <<lock, pc, work, serial>>

extVars == <<store, built, lexer>>

auxVars == <<load, spaces, classified>>

vars == <<wsVars, symVars, concVars, extVars, auxVars>>

----------------------------------------------------------------------------
(* Option<T> *)

None == <<>>

Some(x) == <<x>>

----------------------------------------------------------------------------
(* URLs.  A URL is a drive letter and a path; normalization lower-cases    *)
(* the drive letter, so two raw URLs can normalize to the same URL.        *)

MaxDocs == 2

Urls == { [drive |-> "c", path |-> "a"], [drive |-> "C", path |-> "a"], [drive |-> "c", path |-> "b"] }

LowerDrive(d) == IF d = "C" THEN "c" ELSE d

Normalize(url) == [drive |-> LowerDrive(url.drive), path |-> url.path]

----------------------------------------------------------------------------
(* Names and identifier syntax.  A name is a sequence of characters.       *)

IdentStart == {"a", "b", "f", "o", "n", "e", "g", "_"}

IdentContinue == IdentStart \cup {"0", "1"}

IsValidIdent(name) ==
    /\ Len(name) > 0
    /\ name[1] \in IdentStart
    /\ \A i \in 2..Len(name) : name[i] \in IdentContinue

Foo == <<"f", "o", "o">>

Neg == <<"n", "e", "g">>

Tilde2 == <<"~", "~">>

Assign == <<"=">>

----------------------------------------------------------------------------
(* Tokens of an operator definition and the kinds that can name one.       *)

Tok(kind, text) == [kind |-> kind, text |-> text]

\* SyntaxKind::infix_binding_power(): defined for the binary operator kinds.
InfixKinds == {"OP_ADD", "OP_SUB", "OP_MUL", "OP_DIV", "OP_EQ", "OP_ASSIGN"}

HasInfixBindingPower(kind) == kind \in InfixKinds

\* a search that prefers an identifier to a punctuation token before it
NameTokenIndexIdentFirst(toks) ==
    LET idents == { i \in 2..Len(toks) : toks[i].kind = "IDENT" }
        puncts == { i \in 2..Len(toks) : HasInfixBindingPower(toks[i].kind) }
    IN  IF idents # {} THEN CHOOSE i \in idents : \A j \in idents : i <= j
        ELSE IF puncts # {} THEN CHOOSE i \in puncts : \A j \in puncts : i <= j
        ELSE 0

\* Def::Op: the tokens after the first one, searched for the first
\* identifier or infix-capable punctuation token.
NameTokenIndex(toks) ==
    LET hits == { i \in 2..Len(toks) :
                    toks[i].kind = "IDENT" \/ HasInfixBindingPower(toks[i].kind) }
    IN  IF hits = {} THEN 0 ELSE CHOOSE i \in hits : \A j \in hits : i <= j

\* OpSymbol: the name the lowering found, and the types and binding powers
\* of the statement (the fields world.rs reads from each Op symbol)
OpSymbol(name, d) ==
    [name |-> name, lhs_ty |-> d.lhs_ty, rhs_ty |-> d.rhs_ty, binding_powers |-> d.binding_powers]

\* One `op` definition statement lowered to at most one Op symbol.
OpSymbolsOfDef(d) ==
    LET i == NameTokenIndex(d.toks)
    IN  IF i = 0 THEN {} ELSE { OpSymbol(d.toks[i].text, d) }

----------------------------------------------------------------------------
(* Document texts.  A text is the string of the document; what the lexer   *)
(* and the parser find in it is given per text.                            *)

ScriptFoo == "a foo b"

ScriptTilde == "a ~~ b"

DefFoo == "module m; op foo(int, int) -> int with (10, 11);"

DefTilde == "module m; op ~~ = (10,11);"

DefNeg == "module m; op neg(int) -> int; op ;"

Texts == {ScriptFoo, ScriptTilde, DefFoo, DefTilde, DefNeg}

DefTexts == {DefFoo, DefTilde, DefNeg}

OpDef(toks, lhs, rhs, bp) == [toks |-> toks, lhs_ty |-> lhs, rhs_ty |-> rhs, binding_powers |-> bp]

\* the operator definition statements of a definition text: the tokens of
\* each statement, and the types and binding powers it declares.  `~` is
\* no token of the language, so `~~` is two ERROR tokens; neg is unary and
\* has no right-hand type; `op ;` has no name token.
OpDefsOf(text) ==
    CASE text = DefFoo ->
           << OpDef(<<Tok("IDENT", <<"o", "p">>), Tok("IDENT", Foo), Tok("PUNCT_PAREN_START", <<"(">>)>>,
                    "int", Some("int"), <<10, 11>>) >>
      [] text = DefTilde ->
           << OpDef(<<Tok("IDENT", <<"o", "p">>), Tok("ERROR", <<"~">>), Tok("ERROR", <<"~">>),
                      Tok("OP_ASSIGN", Assign), Tok("PUNCT_PAREN_START", <<"(">>)>>,
                    "unknown", Some("unknown"), <<10, 11>>) >>
      [] text = DefNeg ->
           << OpDef(<<Tok("IDENT", <<"o", "p">>), Tok("IDENT", Neg), Tok("PUNCT_PAREN_START", <<"(">>)>>,
                    "int", None, <<0, 0>>),
              OpDef(<<Tok("IDENT", <<"o", "p">>), Tok("PUNCT_SEMI", <<";">>)>>,
                    "unknown", None, <<0, 0>>) >>
      [] OTHER -> <<>>

\* the token between the two operands of a script's expression
InfixOf(text) ==
    CASE text = ScriptFoo -> Foo
      [] text = ScriptTilde -> Tilde2
      [] OTHER -> <<>>

\* the heuristic that tells a definition file: it starts with `module`
is_rhai_def(text) == text \in DefTexts

----------------------------------------------------------------------------
(* The parser: a function of the text and of the operator table.           *)

TableNames(table) == { e[1] : e \in table }

\* Parser::new(text).with_operators(table).parse_def() / .parse_script()
ParseOf(text, table, is_def) ==
    [green     |-> text,
     operators |-> table,
     root      |-> IF is_def THEN "RhaiDef" ELSE "Rhai",
     expr      |-> IF is_def THEN "none"
                   ELSE IF InfixOf(text) \in TableNames(table) THEN "EXPR_BIN" ELSE "error"]

\* parse.green.to_string(): the tree is lossless
GreenToString(green) == green

----------------------------------------------------------------------------
(* IndexMap<Url, Document>: a sequence of entries with distinct keys.      *)

Document(url, parse, text, is_def) == [url |-> url, parse |-> parse, mapper |-> text, is_def |-> is_def]

Keys(docs) == { docs[i].url : i \in DOMAIN docs }

IndexOfKey(docs, url) ==
    LET hits == { i \in DOMAIN docs : docs[i].url = url }
    IN  IF hits = {} THEN 0 ELSE CHOOSE i \in hits : TRUE

Get(docs, url) == IF IndexOfKey(docs, url) = 0 THEN None ELSE Some(docs[IndexOfKey(docs, url)])

\* IndexMap::insert: an existing key keeps its position and gets the new
\* value, a new key is appended.
Insert(docs, entry) ==
    LET i == IndexOfKey(docs, entry.url)
    IN  IF i = 0 THEN Append(docs, entry) ELSE [docs EXCEPT ![i] = entry]

\* IndexMap::remove is swap_remove: the last entry takes the removed place.
SwapRemove(docs, url) ==
    LET i == IndexOfKey(docs, url)
        n == Len(docs)
    IN  IF i = 0 THEN docs
        ELSE IF i = n THEN SubSeq(docs, 1, n - 1)
        ELSE [j \in 1..(n - 1) |-> IF j = i THEN docs[n] ELSE docs[j]]

IsScriptDoc(d) == ~d.is_def

IsDefDoc(d) == d.is_def

----------------------------------------------------------------------------
(* The HIR: the sources arena.  A source carries the Op symbols that were  *)
(* lowered from it; they are freed with it.                                *)

RECURSIVE OpSymbolsOfDefs(_)
OpSymbolsOfDefs(defs) ==
    IF defs = <<>> THEN {}
    ELSE OpSymbolsOfDef(Head(defs)) \cup OpSymbolsOfDefs(Tail(defs))

SourceData(url, parse) ==
    [url    |-> url,
     kind   |-> IF parse.root = "RhaiDef" THEN "Def" ELSE "Script",
     syntax |-> parse,
     ops    |-> IF parse.root = "RhaiDef" THEN OpSymbolsOfDefs(OpDefsOf(parse.green)) ELSE {}]

\* Hir::source_of / source_by_url: the first source with that URL, 0 if none
source_of(h, url) ==
    LET hits == { i \in DOMAIN h.sources : h.sources[i].url = url }
    IN  IF hits = {} THEN 0 ELSE CHOOSE i \in hits : \A j \in hits : i <= j

remove_source(h, i) ==
    [h EXCEPT !.sources = [j \in 1..(Len(h.sources) - 1) |->
                              IF j < i THEN h.sources[j] ELSE h.sources[j + 1]]]

\* Hir::add_source: a source already held for the URL is removed first
add_source(h, url, parse) ==
    LET h1 == IF source_of(h, url) = 0 THEN h ELSE remove_source(h, source_of(h, url))
    IN  [h1 EXCEPT !.sources = Append(h1.sources, SourceData(url, parse))]

\* Hir::operators(): every Op symbol of every source
operators(h) == UNION { h.sources[i].ops : i \in DOMAIN h.sources }

SourcesAt(h, url) == { i \in DOMAIN h.sources : h.sources[i].url = url }

----------------------------------------------------------------------------
(* The workspace.  A workspace value ws holds the three fields of          *)
(* Workspace that the handlers touch, and two counters of what the         *)
(* handler did: the URLs it re-added and how often check_operators ran.    *)

Workspace(docs, h, ops) ==
    [documents |-> docs, hir |-> h, custom_operators |-> ops, readded |-> <<>>, checks |-> 0]

\* an operator table that keeps every cached name
OperatorTableAll(ops) == { <<t[1], t[4]>> : t \in ops }

\* the iterator handed to Parser::with_operators by add_document
OperatorTable(ops) == { <<t[1], t[4]>> : t \in { o \in ops : IsValidIdent(o[1]) } }

\* the set check_operators collects from hir.operators()
NewOperators(h) ==
    { <<op.name, op.lhs_ty, op.rhs_ty[1], op.binding_powers>> :
        op \in { o \in operators(h) : o.rhs_ty # None } }

\* an add_document that files the source under the URL as given
AddDocumentBodyRawUrl(ws, url, text) ==
    LET is_def == is_rhai_def(text)
        parse == ParseOf(text, OperatorTable(ws.custom_operators), is_def)
    IN  [ws EXCEPT !.hir = add_source(ws.hir, url, parse),
                   !.documents = Insert(ws.documents, Document(url, parse, text, is_def))]

\* add_document up to and including documents.insert
AddDocumentBody(ws, url, text) ==
    LET is_def == is_rhai_def(text)
        parse == ParseOf(text, OperatorTable(ws.custom_operators), is_def)
        normalized_url == Normalize(url)
    IN  [ws EXCEPT !.hir = add_source(ws.hir, normalized_url, parse),
                   !.documents = Insert(ws.documents, Document(url, parse, text, is_def))]

\* the closure of documents.retain in check_operators, entry by entry:
\* a script's source leaves the HIR
RECURSIVE RetainRemoveSources(_, _)
RetainRemoveSources(h, docs) ==
    IF docs = <<>> THEN h
    ELSE LET d == Head(docs)
             src == source_of(h, Normalize(d.url))
             h1 == IF ~d.is_def /\ src # 0 THEN remove_source(h, src) ELSE h
         IN  RetainRemoveSources(h1, Tail(docs))

DocsToReparse(docs) ==
    LET scripts == SelectSeq(docs, IsScriptDoc)
    IN  [i \in DOMAIN scripts |-> <<scripts[i].url, GreenToString(scripts[i].parse.green)>>]

RECURSIVE add_document(_, _, _), check_operators(_), ReAdd(_, _)

\* the loop over docs_to_reparse
ReAdd(ws, todo) ==
    IF todo = <<>> THEN ws
    ELSE LET ws1 == add_document(ws, Head(todo)[1], Head(todo)[2])
         IN  ReAdd([ws1 EXCEPT !.readded = Append(ws1.readded, Head(todo)[1])], Tail(todo))

\* a check_operators that re-adds the scripts before it updates the cache
check_operators_stale(ws0) ==
    LET ws == [ws0 EXCEPT !.checks = ws0.checks + 1]
        new_operators == NewOperators(ws.hir)
    IN  IF new_operators = ws.custom_operators THEN ws
        ELSE [ReAdd([ws EXCEPT !.hir = RetainRemoveSources(ws.hir, ws.documents),
                               !.documents = SelectSeq(ws.documents, IsDefDoc)],
                    DocsToReparse(ws.documents))
                EXCEPT !.custom_operators = new_operators]

\* a check_operators without the early return
check_operators_always(ws0) ==
    LET ws == [ws0 EXCEPT !.checks = ws0.checks + 1]
        new_operators == NewOperators(ws.hir)
    IN  ReAdd([ws EXCEPT !.custom_operators = new_operators,
                         !.hir = RetainRemoveSources(ws.hir, ws.documents),
                         !.documents = SelectSeq(ws.documents, IsDefDoc)],
              DocsToReparse(ws.documents))

\* a check_operators that updates the cache and leaves the scripts as parsed
check_operators_noreparse(ws0) ==
    LET ws == [ws0 EXCEPT !.checks = ws0.checks + 1]
    IN  [ws EXCEPT !.custom_operators = NewOperators(ws.hir)]

check_operators(ws0) ==
    LET ws == [ws0 EXCEPT !.checks = ws0.checks + 1]
        new_operators == NewOperators(ws.hir)
    IN  IF new_operators = ws.custom_operators THEN ws
        ELSE ReAdd([ws EXCEPT !.custom_operators = new_operators,
                              !.hir = RetainRemoveSources(ws.hir, ws.documents),
                              !.documents = SelectSeq(ws.documents, IsDefDoc)],
                   DocsToReparse(ws.documents))

\* an add_document that runs check_operators for scripts too
add_document_checks_scripts(ws, url, text) == check_operators(AddDocumentBody(ws, url, text))

add_document(ws, url, text) ==
    LET ws1 == AddDocumentBody(ws, url, text)
    IN  IF is_rhai_def(text) THEN check_operators(ws1) ELSE ws1

\* remove_document up to and including documents.remove
RemoveDocumentBody(ws, uri) ==
    LET src == source_of(ws.hir, Normalize(uri))
    IN  [ws EXCEPT !.hir = IF src # 0 THEN remove_source(ws.hir, src) ELSE ws.hir,
                   !.documents = SwapRemove(ws.documents, uri)]

\* a remove_document that never runs check_operators
remove_document_nocheck(ws, uri) == RemoveDocumentBody(ws, uri)

remove_document(ws, uri) ==
    LET doc == Get(ws.documents, uri)
        ws1 == RemoveDocumentBody(ws, uri)
    IN  IF doc # None /\ doc[1].is_def THEN check_operators(ws1) ELSE ws1

----------------------------------------------------------------------------
(* The HIR store (Hir in hir.rs) and the lowering of definition files      *)
(* (add_def and add_def_statement in add/def.rs).  Keys of the slot maps   *)
(* are positive numbers handed out once; Null is the null key.             *)

Null == 0

\* SlotMap::contains_key
Live(map, key) == key \in DOMAIN map

\* SlotMap::insert under a key the store hands out
MapInsert(map, key, data) == (key :> data) @@ map

\* SlotMap::remove for each key of a set
MapRemove(map, keys) == [k \in DOMAIN map \ keys |-> map[k]]

\* str::strip_prefix / strip_suffix with a char, on a sequence of chars
StripPrefix(s, c) == IF s # <<>> /\ s[1] = c THEN Some(Tail(s)) ELSE None

StripSuffix(s, c) == IF s # <<>> /\ s[Len(s)] = c THEN Some(SubSeq(s, 1, Len(s) - 1)) ELSE None

UnwrapOr(o, default) == IF o = None THEN default ELSE o[1]

\* the delimiters and the escape char, written by name
Quote == "dquote"

Backtick == "backtick"

Backslash == "backslash"

\* rowan util unescape(s, termination): a backslash yields the char after it
RECURSIVE Unescape(_)
Unescape(s) ==
    IF s = <<>> THEN <<>>
    ELSE IF s[1] = Backslash /\ Len(s) >= 2 THEN <<s[2]>> \o Unescape(SubSeq(s, 3, Len(s)))
    ELSE <<s[1]>> \o Unescape(Tail(s))

STATIC_URL_SCHEME == <<"s", "t", "a", "t", "i", "c">>

FileScheme == <<"f", "i", "l", "e">>

Url(scheme, path) == [scheme |-> scheme, path |-> path]

Letters == {"a", "c", "d", "e", "f", "i", "l", "m", "s", "t", "x"}

\* the position of the first ':' that ends a scheme, 0 if the text has none
SchemeEnd(s) ==
    LET hits == { i \in 2..Len(s) : s[i] = ":" /\ \A j \in 1..(i - 1) : s[j] \in Letters }
    IN  IF hits = {} THEN 0 ELSE CHOOSE i \in hits : \A j \in hits : i <= j

\* the directory of a path: the path up to and including its last '/'
DirOf(path) ==
    LET hits == { i \in DOMAIN path : path[i] = "/" }
    IN  IF hits = {} THEN <<>> ELSE SubSeq(path, 1, CHOOSE i \in hits : \A j \in hits : j <= i)

\* "://" or ":" after the scheme is dropped from the rest
AfterScheme(s, i) ==
    IF Len(s) >= i + 2 /\ s[i + 1] = "/" /\ s[i + 2] = "/"
    THEN SubSeq(s, i + 3, Len(s)) ELSE SubSeq(s, i + 1, Len(s))

\* Hir::resolve_import_url(Some(base), path): the relative-URL join.  A
\* reference with a scheme is the URL itself, a reference with '[' has no
\* valid host and does not resolve, any other is joined to the directory
\* of the base.
resolve_import_url(base, ref) ==
    IF \E i \in DOMAIN ref : ref[i] = "[" THEN None
    ELSE IF SchemeEnd(ref) # 0
         THEN Some(Url(SubSeq(ref, 1, SchemeEnd(ref) - 1), AfterScheme(ref, SchemeEnd(ref))))
    ELSE Some(Url(base.scheme, DirOf(base.path) \o ref))

DefSuffix == <<".", "d">>

\* util script_url: the URL of the script a definition file `x.d` describes
script_url(url) ==
    IF Len(url.path) > 2 /\ SubSeq(url.path, Len(url.path) - 1, Len(url.path)) = DefSuffix
    THEN Some(Url(url.scheme, SubSeq(url.path, 1, Len(url.path) - 2)))
    ELSE None

\* ModuleKind::Static and ModuleKind::Url(url)
KindStatic == [tag |-> "Static"]

KindUrl(url) == [tag |-> "Url", url |-> url]

ModuleData(kind, scope) == [kind |-> kind, docs |-> "", scope |-> scope]

\* ScopeData::default() with the source it was made for
ScopeData(source) == [source |-> source, parent |-> None, symbols |-> <<>>, hoisted_symbols |-> {}]

ParentSymbol(symbol) == [tag |-> "Symbol", key |-> symbol]

ParentScope(scope) == [tag |-> "Scope", key |-> scope]

\* SymbolData of the store: parent_scope is Scope::default() until the
\* symbol is registered in a scope
HirSymbolData(export, source, kind, name, scope) ==
    [export |-> export, parent_scope |-> Null, source |-> source, kind |-> kind,
     name |-> name, scope |-> scope, alias |-> Null, target |-> Null]

HirSourceData(url) == [url |-> url, kind |-> "Def", module |-> Null]

TypeNames == <<"module", "int", "float", "bool", "char", "string", "timestamp", "void", "unknown", "never">>

\* BuiltinTypes::uninit(): every key is the null key
BuiltinTypesUninit == [n \in 1..Len(TypeNames) |-> Null]

\* BuiltinTypes::is_uninit
is_uninit(builtin_types) == builtin_types[1] = Null

VirtualUrl == Url(<<"v">>, <<>>)

\* Hir before prepare(): empty arenas, null keys
HirEmpty ==
    [static_module |-> Null, virtual_source |-> Null,
     modules |-> <<>>, scopes |-> <<>>, symbols |-> <<>>, sources |-> <<>>, types |-> <<>>,
     builtin_types |-> BuiltinTypesUninit, keys |-> 0]

\* Hir::ensure_static_module: made when static_module is the null key
ensure_static_module(h) ==
    IF h.static_module # Null THEN h
    ELSE [h EXCEPT !.scopes = MapInsert(h.scopes, h.keys + 1, ScopeData(Null)),
                   !.modules = MapInsert(h.modules, h.keys + 2, ModuleData(KindStatic, h.keys + 1)),
                   !.static_module = h.keys + 2,
                   !.keys = h.keys + 2]

\* Hir::ensure_virtual_source: made when virtual_source is the null key
ensure_virtual_source(h) ==
    IF h.virtual_source # Null THEN h
    ELSE [h EXCEPT !.sources = MapInsert(h.sources, h.keys + 1,
                                         [HirSourceData(VirtualUrl) EXCEPT !.module = h.static_module]),
                   !.virtual_source = h.keys + 1,
                   !.keys = h.keys + 1]

\* Hir::ensure_builtin_types: made when builtin_types is uninit
ensure_builtin_types(h) ==
    IF ~is_uninit(h.builtin_types) THEN h
    ELSE [h EXCEPT !.types = [k \in DOMAIN h.types \cup { h.keys + n : n \in 1..Len(TypeNames) } |->
                                 IF k \in DOMAIN h.types THEN h.types[k] ELSE TypeNames[k - h.keys]],
                   !.builtin_types = [n \in 1..Len(TypeNames) |-> h.keys + n],
                   !.keys = h.keys + Len(TypeNames)]

prepare(h) == ensure_builtin_types(ensure_virtual_source(ensure_static_module(h)))

\* impl Default for Hir, Hir::new
HirNew == prepare(HirEmpty)

\* a clear that does not prepare the store again
clear_noprepare(h) ==
    [h EXCEPT !.symbols = <<>>, !.scopes = <<>>, !.modules = <<>>, !.sources = <<>>,
              !.types = <<>>, !.builtin_types = BuiltinTypesUninit,
              !.static_module = Null]

\* Hir::clear
clear(h) ==
    prepare([h EXCEPT !.symbols = <<>>, !.scopes = <<>>, !.modules = <<>>, !.sources = <<>>,
                      !.types = <<>>, !.builtin_types = BuiltinTypesUninit,
                      !.static_module = Null])

\* Hir::add_symbol, SlotMap::insert on symbols: the key made is h.keys + 1
add_symbol(h, data) ==
    [h EXCEPT !.symbols = MapInsert(h.symbols, h.keys + 1, data), !.keys = h.keys + 1]

\* SlotMap::insert on scopes: the key made is h.keys + 1
InsertScope(h, data) ==
    [h EXCEPT !.scopes = MapInsert(h.scopes, h.keys + 1, data), !.keys = h.keys + 1]

\* Scope::add_symbol(hir, symbol, hoist): the symbol joins the scope and
\* gets it as its parent_scope
scope_add_symbol(h, scope, symbol, hoist) ==
    [h EXCEPT !.scopes[scope].symbols = IF hoist THEN @ ELSE Append(@, symbol),
              !.scopes[scope].hoisted_symbols = IF hoist THEN @ \cup {symbol} ELSE @,
              !.symbols[symbol].parent_scope = scope]

\* Scope::set_parent(hir, symbol)
set_parent(h, scope, symbol) ==
    [h EXCEPT !.scopes[scope].parent = Some(ParentSymbol(symbol))]

ModulesOfKind(h, kind) == { m \in DOMAIN h.modules : h.modules[m].kind = kind }

\* Hir::ensure_module(kind): the module of that kind, made with a root
\* scope when there is none; the store and the module's key
ensure_module(h, kind) ==
    IF ModulesOfKind(h, kind) # {}
    THEN [h |-> h, module |-> CHOOSE m \in ModulesOfKind(h, kind) : TRUE]
    ELSE [h |-> [h EXCEPT !.scopes = MapInsert(h.scopes, h.keys + 1, ScopeData(Null)),
                          !.modules = MapInsert(h.modules, h.keys + 2, ModuleData(kind, h.keys + 1)),
                          !.keys = h.keys + 2],
          module |-> h.keys + 2]

StaticScopeModules(h) ==
    { h.symbols[s].target : s \in { x \in DOMAIN h.symbols : h.symbols[x].kind = "VirtualModule" } }

\* Hir::add_module_to_static_scope: a virtual symbol for the module in the
\* root scope of the static module, unless it has one
add_module_to_static_scope(h, module) ==
    IF module \in StaticScopeModules(h) THEN h
    ELSE LET h1 == add_symbol(h, [HirSymbolData(TRUE, Null, "VirtualModule", <<>>, Null)
                                    EXCEPT !.target = module])
         IN  scope_add_symbol(h1, h.modules[h.static_module].scope, h1.keys, FALSE)

\* Hir::add_expression for the expression of an import: one symbol in the
\* import scope
add_expression(h, source, scope) ==
    LET h1 == add_symbol(h, HirSymbolData(FALSE, source, "Lit", <<>>, Null))
    IN  scope_add_symbol(h1, scope, h1.keys, FALSE)

\* Def::Import: the import scope, the alias, the expression, the import
\* symbol, in the order the keys are made
AddDefImport(h, source, scope, stmt) ==
    LET import_scope == h.keys + 1
        h1 == InsertScope(h, ScopeData(source))
        alias_symbol == IF stmt.alias = None THEN Null ELSE h1.keys + 1
        h2 == IF stmt.alias = None THEN h1
              ELSE scope_add_symbol(add_symbol(h1, HirSymbolData(TRUE, source, "Decl.is_import", stmt.alias[1], Null)),
                                    import_scope, alias_symbol, TRUE)
        h3 == IF stmt.expr THEN add_expression(h2, source, import_scope) ELSE h2
        symbol == h3.keys + 1
        h4 == add_symbol(h3, [HirSymbolData(TRUE, source, "Import", <<>>, import_scope)
                                EXCEPT !.alias = alias_symbol])
    IN  set_parent(scope_add_symbol(h4, scope, symbol, TRUE), import_scope, symbol)

\* Def::Const
AddDefConst(h, source, scope, stmt) ==
    IF stmt.ident = None THEN h
    ELSE scope_add_symbol(add_symbol(h, HirSymbolData(TRUE, source, "Decl.is_const", stmt.ident[1], Null)),
                          scope, h.keys + 1, TRUE)

\* the export flag of the symbol made for a parameter of a function
ParamExport == FALSE

\* Def::Fn: the loop over typed_param_list().params()
RECURSIVE AddDefParams(_, _, _, _)
AddDefParams(h, source, fn_scope, params) ==
    IF params = <<>> THEN h
    ELSE AddDefParams(
            scope_add_symbol(add_symbol(h, HirSymbolData(ParamExport, source, "Decl.is_param",
                                                         UnwrapOr(Head(params), <<>>), Null)),
                             fn_scope, h.keys + 1, FALSE),
            source, fn_scope, Tail(params))

\* a Def::Fn that leaves the function scope without a parent
AddDefFnNoParent(h, source, scope, stmt) ==
    LET fn_scope == h.keys + 1
        h1 == InsertScope(h, ScopeData(source))
        h2 == AddDefParams(h1, source, fn_scope, stmt.params)
        symbol == h2.keys + 1
        h3 == add_symbol(h2, HirSymbolData(TRUE, source, "Fn", UnwrapOr(stmt.ident, <<>>), fn_scope))
    IN  scope_add_symbol(h3, scope, symbol, TRUE)

\* Def::Fn: the function scope, the parameters, the function symbol
AddDefFn(h, source, scope, stmt) ==
    LET fn_scope == h.keys + 1
        h1 == InsertScope(h, ScopeData(source))
        h2 == AddDefParams(h1, source, fn_scope, stmt.params)
        symbol == h2.keys + 1
        h3 == add_symbol(h2, HirSymbolData(TRUE, source, "Fn", UnwrapOr(stmt.ident, <<>>), fn_scope))
    IN  set_parent(scope_add_symbol(h3, scope, symbol, TRUE), fn_scope, symbol)

\* Def::Op: the symbol carries the text of the name token
AddDefOp(h, source, scope, stmt) ==
    IF NameTokenIndex(stmt.toks) = 0 THEN h
    ELSE scope_add_symbol(add_symbol(h, HirSymbolData(TRUE, source, "Op",
                                                      stmt.toks[NameTokenIndex(stmt.toks)].text, Null)),
                          scope, h.keys + 1, TRUE)

\* Hir::add_def_statement
add_def_statement(h, source, scope, stmt) ==
    CASE stmt.def = "Import" -> AddDefImport(h, source, scope, stmt)
      [] stmt.def = "Const" -> AddDefConst(h, source, scope, stmt)
      [] stmt.def = "Fn" -> AddDefFn(h, source, scope, stmt)
      [] stmt.def = "Op" -> AddDefOp(h, source, scope, stmt)
      [] OTHER -> h

\* the loop over def.statements()
RECURSIVE AddDefStatements(_, _, _, _)
AddDefStatements(h, source, scope, stmts) ==
    IF stmts = <<>> THEN h
    ELSE AddDefStatements(add_def_statement(h, source, scope, Head(stmts)), source, scope, Tail(stmts))

\* add_def: the text of the literal without its double quotes
LitStrContent(lit_str) == UnwrapOr(StripSuffix(UnwrapOr(StripPrefix(lit_str, Quote), lit_str), Quote), lit_str)

\* a module kind that takes the derived script URL when the literal does
\* not resolve
ModuleKindOfFallback(h, source, def_mod) ==
    IF def_mod.kw_static THEN Some(KindStatic)
    ELSE IF def_mod.lit_str # None
            /\ resolve_import_url(h.sources[source].url,
                                  Unescape(LitStrContent(def_mod.lit_str[1]))) # None
         THEN Some(KindUrl(resolve_import_url(h.sources[source].url,
                                              Unescape(LitStrContent(def_mod.lit_str[1])))[1]))
    ELSE IF def_mod.ident # None /\ def_mod.lit_str = None
         THEN Some(KindUrl(Url(STATIC_URL_SCHEME, def_mod.ident[1])))
    ELSE Some(KindUrl(UnwrapOr(script_url(h.sources[source].url), h.sources[source].url)))

\* add_def: the module kind of a definition module declaration, None when
\* the literal does not resolve
ModuleKindOf(h, source, def_mod) ==
    IF def_mod.kw_static THEN Some(KindStatic)
    ELSE IF def_mod.lit_str # None
         THEN LET import_url == resolve_import_url(h.sources[source].url,
                                                   Unescape(LitStrContent(def_mod.lit_str[1])))
              IN  IF import_url # None THEN Some(KindUrl(import_url[1])) ELSE None
    ELSE IF def_mod.ident # None
         THEN Some(KindUrl(Url(STATIC_URL_SCHEME, def_mod.ident[1])))
    ELSE Some(KindUrl(UnwrapOr(script_url(h.sources[source].url), h.sources[source].url)))

\* an add_def that makes a module of its own for every definition file
AddDefModuleFresh(h, source, def, module_kind) ==
    LET module == h.keys + 2
        h0 == [h EXCEPT !.scopes = MapInsert(h.scopes, h.keys + 1, ScopeData(Null)),
                        !.modules = MapInsert(h.modules, h.keys + 2, ModuleData(module_kind, h.keys + 1)),
                        !.keys = h.keys + 2]
        h1 == [h0 EXCEPT !.modules[module].docs = def.decl[1].docs,
                         !.sources[source].module = module]
        h2 == IF h1.modules[module].kind.tag = "Url"
                 /\ h1.modules[module].kind.url.scheme = STATIC_URL_SCHEME
              THEN add_module_to_static_scope(h1, module) ELSE h1
    IN  AddDefStatements(h2, source, h2.modules[module].scope, def.statements)

\* add_def after the module kind is known
AddDefModule(h, source, def, module_kind) ==
    LET em == ensure_module(h, module_kind)
        module == em.module
        h1 == [em.h EXCEPT !.modules[module].docs = def.decl[1].docs,
                           !.sources[source].module = module]
        h2 == IF h1.modules[module].kind.tag = "Url"
                 /\ h1.modules[module].kind.url.scheme = STATIC_URL_SCHEME
              THEN add_module_to_static_scope(h1, module) ELSE h1
    IN  AddDefStatements(h2, source, h2.modules[module].scope, def.statements)

\* Hir::add_def
add_def(h, source, def) ==
    IF def.decl = None THEN h
    ELSE IF def.decl[1].def_module = None THEN h
    ELSE LET module_kind == ModuleKindOf(h, source, def.decl[1].def_module[1])
         IN  IF module_kind = None THEN h
             ELSE AddDefModule(h, source, def, module_kind[1])

\* Hir::source_of on the store
HirSourceOf(h, url) ==
    LET hits == { s \in DOMAIN h.sources : h.sources[s].url = url }
    IN  IF hits = {} THEN Null ELSE CHOOSE s \in hits : \A t \in hits : s <= t

\* Hir::remove_source on the store: the symbols and scopes owned by the
\* source are freed and leave the scopes that stay; modules persist
HirRemoveSource(h, source) ==
    LET gone == { s \in DOMAIN h.symbols : h.symbols[s].source = source }
        kept == { c \in DOMAIN h.scopes : h.scopes[c].source # source }
    IN  [h EXCEPT !.symbols = MapRemove(h.symbols, gone),
                  !.scopes = [c \in kept |->
                                [h.scopes[c] EXCEPT
                                   !.symbols = SelectSeq(@, LAMBDA s : s \notin gone),
                                   !.hoisted_symbols = @ \ gone]],
                  !.sources = MapRemove(h.sources, {source})]

\* Hir::add_source up to the lowering: a source held for the URL is
\* removed, the new source is made with the null module
InsertSource(h, url) ==
    LET h1 == IF HirSourceOf(h, url) = Null THEN h ELSE HirRemoveSource(h, HirSourceOf(h, url))
    IN  [h1 EXCEPT !.sources = MapInsert(h1.sources, h1.keys + 1, HirSourceData(url)),
                   !.keys = h1.keys + 1]

\* Hir::add_source of a definition file
HirAddSource(h, url, def) == add_def(InsertSource(h, url), InsertSource(h, url).keys, def)

\* Definition files as the parser hands them to add_def: the module
\* declaration (None when the file has none) and the statements.
DefModule(kw_static, lit_str, ident) == [kw_static |-> kw_static, lit_str |-> lit_str, ident |-> ident]

RhaiDef(def_module, statements) ==
    [decl |-> Some([docs |-> "docs", def_module |-> Some(def_module)]), statements |-> statements]

StmtImport == [def |-> "Import", alias |-> Some(<<"x">>), expr |-> TRUE]

StmtImportBare == [def |-> "Import", alias |-> None, expr |-> FALSE]

StmtConst == [def |-> "Const", ident |-> Some(<<"c">>)]

StmtFn == [def |-> "Fn", ident |-> Some(<<"f">>), params |-> <<Some(<<"a">>), None>>]

StmtOp == [def |-> "Op", toks |-> <<Tok("IDENT", <<"o", "p">>), Tok("IDENT", Foo)>>]

\* op +(int, int) -> int;
StmtOpAdd ==
    [def |-> "Op",
     toks |-> <<Tok("IDENT", <<"o", "p">>), Tok("WHITESPACE", <<" ">>), Tok("OP_ADD", <<"+">>),
                Tok("PUNCT_PAREN_START", <<"(">>), Tok("IDENT", <<"i", "n", "t">>)>>]

\* op ~~ = (10, 11) foo;
StmtOpTilde ==
    [def |-> "Op",
     toks |-> <<Tok("IDENT", <<"o", "p">>), Tok("WHITESPACE", <<" ">>), Tok("ERROR", <<"~">>),
                Tok("ERROR", <<"~">>), Tok("OP_ASSIGN", Assign), Tok("PUNCT_PAREN_START", <<"(">>),
                Tok("LIT_INT", <<"1", "0">>), Tok("IDENT", Foo)>>]

\* op ;
StmtOpNoName ==
    [def |-> "Op",
     toks |-> <<Tok("IDENT", <<"o", "p">>), Tok("WHITESPACE", <<" ">>), Tok("PUNCT_SEMI", <<";">>)>>]

StmtType == [def |-> "Type"]

\* module static;
DefStatic == RhaiDef(DefModule(TRUE, None, None), <<StmtFn, StmtConst>>)

\* module static m;  (the keyword and a name in one declaration)
DefStaticNamed == RhaiDef(DefModule(TRUE, None, Some(<<"m">>)), <<StmtOp>>)

\* module "a";
DefLit == RhaiDef(DefModule(FALSE, Some(<<Quote, "a", Quote>>), None), <<StmtImport>>)

\* module "static://m";
DefLitStatic ==
    RhaiDef(DefModule(FALSE, Some(<<Quote>> \o STATIC_URL_SCHEME \o <<":", "/", "/", "m", Quote>>), None),
            <<StmtConst>>)

\* module "[";
DefLitBad == RhaiDef(DefModule(FALSE, Some(<<Quote, "[", Quote>>), Some(<<"m">>)), <<StmtFn>>)

\* module `a`;
DefLitBacktick == RhaiDef(DefModule(FALSE, Some(<<Backtick, "a", Backtick>>), None), <<StmtType>>)

\* module m;
DefIdent == RhaiDef(DefModule(FALSE, None, Some(<<"m">>)), <<StmtImportBare, StmtOp>>)

\* module ops;  with operator definitions of every form
DefOps ==
    RhaiDef(DefModule(FALSE, None, Some(<<"o", "p", "s">>)),
            <<StmtOp, StmtOpAdd, StmtOpNoName, StmtOpTilde, StmtOp>>)

\* module;
DefAnon == RhaiDef(DefModule(FALSE, None, None), <<StmtFn>>)

\* a file without a module declaration
DefNoDecl == [decl |-> None, statements |-> <<StmtConst>>]

DefFiles == {DefStatic, DefStaticNamed, DefLit, DefLitStatic, DefLitBad, DefLitBacktick,
             DefIdent, DefOps, DefAnon, DefNoDecl}

\* file:///d/a.d and file:///d/b
DefUrls == {Url(FileScheme, <<"/", "d", "/", "a", ".", "d">>), Url(FileScheme, <<"/", "d", "/", "b">>)}

MaxHirOps == 2

\* root:///
DEFAULT_WORKSPACE_URL == <<"r", "o", "o", "t", ":", "/", "/", "/">>

\* WorldState::new: the default workspace alone
WorldStateNew == <<DEFAULT_WORKSPACE_URL>>

(* The state machine: LSP notifications add and remove documents.          *)

Current == Workspace(documents, hir, custom_operators)

Triple(ws) == [documents |-> ws.documents, hir |-> ws.hir, custom_operators |-> ws.custom_operators]

Tasks == {"t1", "t2"}

Init ==
    /\ documents = <<>>
    /\ hir = [sources |-> <<>>]
    /\ custom_operators = {}
    /\ last = [op |-> "new", url |-> None, text |-> None, known |-> FALSE, checks |-> 0,
               changed |-> FALSE, readded |-> <<>>]
    /\ symbols = <<>>
    /\ result = None
    /\ lock = [writer |-> None, readers |-> {}]
    /\ pc = [t \in Tasks |-> "idle"]
    /\ work = None
    /\ serial = [state |-> Triple(Workspace(<<>>, [sources |-> <<>>], {})), count |-> 0]
    /\ store = HirNew
    /\ built = [op |-> "new", url |-> None, def |-> None, source |-> Null, pre |-> None, n |-> 0]
    /\ lexer = [input |-> <<>>, pos |-> 0, peeked |-> None, tokens |-> <<>>, done |-> TRUE,
                call |-> "new", out |-> None, seen |-> None, peeks |-> 0]
    /\ load = [n |-> 0, env |-> None, calls |-> <<>>]
    /\ spaces = [keys |-> WorldStateNew, url |-> None, found |-> None, found_mut |-> None]
    /\ classified = None

Commit(ws, op, url, text, mid) ==
    /\ documents' = ws.documents
    /\ hir' = ws.hir
    /\ custom_operators' = ws.custom_operators
    /\ last' = [op |-> op, url |-> Some(url), text |-> text,
                known |-> (url \in Keys(documents)), checks |-> ws.checks,
                changed |-> (ws.checks > 0 /\ mid.custom_operators # ws.custom_operators),
                readded |-> ws.readded]
    /\ UNCHANGED <<auxVars, extVars, symVars, concVars>>

AddDocument(url, text) ==
    /\ Cardinality(Keys(documents) \cup {url}) <= MaxDocs
    /\ Commit(add_document(Current, url, text), "add", url, Some(text),
              AddDocumentBody(Current, url, text))

RemoveDocument(uri) ==
    /\ uri \in Urls
    /\ Commit(remove_document(Current, uri), "remove", uri, None,
           RemoveDocumentBody(Current, uri))

Next ==
    \/ \E url \in Urls, text \in Texts : AddDocument(url, text)
    \/ \E uri \in Urls : RemoveDocument(uri)

Spec == Init /\ [][Next]_vars

----------------------------------------------------------------------------
(* The symbols arena and hir[symbol] (impl ops::Index<Symbol> for Hir).    *)
(* Handles are the slots 1..MaxSymbols; a live handle is one in the        *)
(* domain of symbols.                                                      *)

MaxSymbols == 3

Handles == 1..MaxSymbols

PlainKinds == {"Decl", "Fn", "Op"}

SymbolData(kind, target) == [kind |-> kind, target |-> target]

IsProxy(sym) == sym.kind = "Proxy"

\* self.symbols.get(index).unwrap(), and for a proxy
\* self.symbols.get(proxy.target).unwrap(): the handles read, in order,
\* and the data returned
HirIndexSymbolNoDeref(syms, index) == [via |-> <<index>>, data |-> syms[index]]

HirIndexSymbol(syms, index) ==
    LET sym == syms[index]
    IN  IF IsProxy(sym)
        THEN [via |-> <<index, sym.target>>, data |-> syms[sym.target]]
        ELSE [via |-> <<index>>, data |-> sym]

FreeHandles == Handles \ DOMAIN symbols

Put(syms, h, data) == [k \in DOMAIN syms \cup {h} |-> IF k = h THEN data ELSE syms[k]]

\* a symbol of a source is lowered into the arena
InsertSymbol(kind) ==
    /\ FreeHandles # {}
    /\ symbols' = Put(symbols, CHOOSE h \in FreeHandles : \A k \in FreeHandles : h <= k,
                      SymbolData(kind, 0))
    /\ result' = None
    /\ UNCHANGED <<auxVars, extVars, wsVars, concVars>>

\* a proxy is created for a live symbol.  (The builder makes no proxy of a
\* proxy; one is admitted here, hir[symbol] itself does not rely on it.)
InsertProxy(target) ==
    /\ FreeHandles # {}
    /\ target \in DOMAIN symbols
    /\ symbols' = Put(symbols, CHOOSE h \in FreeHandles : \A k \in FreeHandles : h <= k,
                      SymbolData("Proxy", target))
    /\ result' = None
    /\ UNCHANGED <<auxVars, extVars, wsVars, concVars>>

\* a symbol that no proxy refers to is freed
RemoveSymbol(h) ==
    /\ h \in DOMAIN symbols
    /\ \A j \in DOMAIN symbols : ~(IsProxy(symbols[j]) /\ symbols[j].target = h)
    /\ symbols' = [k \in DOMAIN symbols \ {h} |-> symbols[k]]
    /\ result' = None
    /\ UNCHANGED <<auxVars, extVars, wsVars, concVars>>

\* a query evaluates hir[index] for a live handle
IndexSymbol(index) ==
    /\ index \in DOMAIN symbols
    /\ result' = Some([index |-> index] @@ HirIndexSymbol(symbols, index))
    /\ UNCHANGED <<auxVars, extVars, symbols, wsVars, concVars>>

NextIndex ==
    \/ \E kind \in PlainKinds : InsertSymbol(kind)
    \/ \E target \in Handles : InsertProxy(target)
    \/ \E h \in Handles : RemoveSymbol(h)
    \/ \E index \in Handles : IndexSymbol(index)

SpecIndex == Init /\ [][NextIndex]_vars

----------------------------------------------------------------------------
(* Concurrent requests.  Tasks share the world through                     *)
(* WorldState.workspaces, an AsyncRwLock: a handler that ingests takes the *)
(* write guard and runs add_document or remove_document statement by       *)
(* statement; a query takes a read guard.  The handlers are not async:     *)
(* between two of their statements the task keeps the guard and no other   *)
(* task of the guard's workspace runs.                                     *)

MaxRequests == 2

\* RwLock::write() resolves: no guard of either kind is held
CanAcquireWriteUnsafe(t) == lock.writer = None

CanAcquireWrite(t) == lock.writer = None /\ lock.readers = {}

\* RwLock::read() resolves: no write guard is held
CanAcquireRead(t) == lock.writer = None

\* &mut self: the statement runs in the task that holds the write guard
HoldsWrite(t) == lock.writer = Some(t)

Goto(t, label) == pc' = [pc EXCEPT ![t] = label]

RunSerially(op, url, text) ==
    LET ws == Workspace(serial.state.documents, serial.state.hir, serial.state.custom_operators)
    IN  [state |-> Triple(IF op = "add" THEN add_document(ws, url, text)
                                        ELSE remove_document(ws, url)),
         count |-> serial.count + 1]

\* workspaces.write().await, then ws.add_document(url, text) is entered
BeginAdd(t, url, text) ==
    /\ pc[t] = "idle" /\ CanAcquireWrite(t)
    /\ serial.count < MaxRequests
    /\ Cardinality(Keys(documents) \cup {url}) <= MaxDocs
    /\ lock' = [lock EXCEPT !.writer = Some(t)]
    /\ work' = Some([op |-> "add", url |-> url, text |-> text, scan |-> <<>>, todo |-> <<>>])
    /\ serial' = RunSerially("add", url, text)
    /\ Goto(t, "add_source")
    /\ UNCHANGED <<auxVars, extVars, wsVars, symVars>>

\* workspaces.write().await, then ws.remove_document(uri) is entered
BeginRemove(t, uri) ==
    /\ pc[t] = "idle" /\ CanAcquireWrite(t)
    /\ serial.count < MaxRequests
    /\ lock' = [lock EXCEPT !.writer = Some(t)]
    /\ work' = Some([op |-> "remove", url |-> uri, text |-> "", scan |-> <<>>, todo |-> <<>>])
    /\ serial' = RunSerially("remove", uri, "")
    /\ Goto(t, "remove_source")
    /\ UNCHANGED <<auxVars, extVars, wsVars, symVars>>

\* add_document: the parse and self.hir.add_source
StepAddSource(t) ==
    /\ pc[t] = "add_source" /\ HoldsWrite(t)
    /\ hir' = add_source(hir, Normalize(work[1].url),
                         ParseOf(work[1].text, OperatorTable(custom_operators),
                                 is_rhai_def(work[1].text)))
    /\ Goto(t, "insert")
    /\ UNCHANGED <<auxVars, extVars, documents, custom_operators, last, symVars, lock, work, serial>>

\* add_document: self.documents.insert, and the branch on is_def
StepInsert(t) ==
    /\ pc[t] = "insert" /\ HoldsWrite(t)
    /\ documents' = AddDocumentBody(Current, work[1].url, work[1].text).documents
    /\ Goto(t, IF is_rhai_def(work[1].text) THEN "check" ELSE "release")
    /\ UNCHANGED <<auxVars, extVars, hir, custom_operators, last, symVars, lock, work, serial>>

\* remove_document: self.hir.remove_source
StepRemoveSource(t) ==
    /\ pc[t] = "remove_source" /\ HoldsWrite(t)
    /\ hir' = RemoveDocumentBody(Current, work[1].url).hir
    /\ Goto(t, "remove")
    /\ UNCHANGED <<auxVars, extVars, documents, custom_operators, last, symVars, lock, work, serial>>

\* remove_document: self.documents.remove, and the branch on doc.is_def
StepRemove(t) ==
    /\ pc[t] = "remove" /\ HoldsWrite(t)
    /\ documents' = SwapRemove(documents, work[1].url)
    /\ Goto(t, IF Get(documents, work[1].url) # None /\ Get(documents, work[1].url)[1].is_def
               THEN "check" ELSE "release")
    /\ UNCHANGED <<auxVars, extVars, hir, custom_operators, last, symVars, lock, work, serial>>

\* check_operators: the comparison, the early return, the cache update
StepCheck(t) ==
    /\ pc[t] = "check" /\ HoldsWrite(t)
    /\ IF NewOperators(hir) = custom_operators
       THEN /\ Goto(t, "release")
            /\ UNCHANGED <<custom_operators, work>>
       ELSE /\ custom_operators' = NewOperators(hir)
            /\ work' = Some([work[1] EXCEPT !.scan = documents])
            /\ Goto(t, "retain")
    /\ UNCHANGED <<auxVars, extVars, documents, hir, last, symVars, lock, serial>>

\* check_operators: documents.retain visits one entry
StepRetain(t) ==
    /\ pc[t] = "retain" /\ HoldsWrite(t)
    /\ work[1].scan # <<>>
    /\ LET d == Head(work[1].scan)
           src == source_of(hir, Normalize(d.url))
       IN  IF d.is_def
           THEN /\ work' = Some([work[1] EXCEPT !.scan = Tail(@)])
                /\ UNCHANGED <<hir, documents>>
           ELSE /\ hir' = IF src # 0 THEN remove_source(hir, src) ELSE hir
                /\ documents' = SelectSeq(documents, LAMBDA e : e.url # d.url)
                /\ work' = Some([work[1] EXCEPT
                                   !.scan = Tail(@),
                                   !.todo = Append(@, <<d.url, GreenToString(d.parse.green)>>)])
    /\ UNCHANGED <<auxVars, extVars, custom_operators, last, symVars, lock, pc, serial>>

\* check_operators: documents.retain is over
StepRetainDone(t) ==
    /\ pc[t] = "retain" /\ HoldsWrite(t)
    /\ work[1].scan = <<>>
    /\ Goto(t, "readd")
    /\ UNCHANGED <<auxVars, extVars, wsVars, symVars, lock, work, serial>>

\* check_operators: self.add_document(uri, &text) for one script, which
\* does not enter check_operators again
StepReAdd(t) ==
    /\ pc[t] = "readd" /\ HoldsWrite(t)
    /\ work[1].todo # <<>>
    /\ ~is_rhai_def(Head(work[1].todo)[2])
    /\ LET ws == AddDocumentBody(Current, Head(work[1].todo)[1], Head(work[1].todo)[2])
       IN  documents' = ws.documents /\ hir' = ws.hir
    /\ work' = Some([work[1] EXCEPT !.todo = Tail(@)])
    /\ UNCHANGED <<auxVars, extVars, custom_operators, last, symVars, lock, pc, serial>>

\* check_operators returns
StepReAddDone(t) ==
    /\ pc[t] = "readd" /\ HoldsWrite(t)
    /\ work[1].todo = <<>>
    /\ Goto(t, "release")
    /\ UNCHANGED <<auxVars, extVars, wsVars, symVars, lock, work, serial>>

\* the handler returns and the write guard is dropped
ReleaseWrite(t) ==
    /\ pc[t] = "release" /\ HoldsWrite(t)
    /\ lock' = [lock EXCEPT !.writer = None]
    /\ work' = None
    /\ Goto(t, "idle")
    /\ UNCHANGED <<auxVars, extVars, wsVars, symVars, serial>>

\* workspaces.read().await in a query
BeginQuery(t) ==
    /\ pc[t] = "idle" /\ CanAcquireRead(t)
    /\ lock' = [lock EXCEPT !.readers = @ \cup {t}]
    /\ Goto(t, "reading")
    /\ UNCHANGED <<auxVars, extVars, wsVars, symVars, work, serial>>

\* the query returns and the read guard is dropped
EndQuery(t) ==
    /\ pc[t] = "reading"
    /\ lock' = [lock EXCEPT !.readers = @ \ {t}]
    /\ Goto(t, "idle")
    /\ UNCHANGED <<auxVars, extVars, wsVars, symVars, work, serial>>

ConcTexts == {ScriptFoo, DefFoo}

NextConc ==
    \E t \in Tasks :
       \/ \E url \in Urls, text \in ConcTexts : BeginAdd(t, url, text)
       \/ \E uri \in Urls : BeginRemove(t, uri)
       \/ StepAddSource(t)
       \/ StepInsert(t)
       \/ StepRemoveSource(t)
       \/ StepRemove(t)
       \/ StepCheck(t)
       \/ StepRetain(t)
       \/ StepRetainDone(t)
       \/ StepReAdd(t)
       \/ StepReAddDone(t)
       \/ ReleaseWrite(t)
       \/ BeginQuery(t)
       \/ EndQuery(t)

SpecConc == Init /\ [][NextConc]_vars

(* Operations on the HIR store: definition files are added under a URL,    *)
(* sources are removed, the store is cleared.                              *)

Built(op, url, def, source, pre) ==
    [op |-> op, url |-> url, def |-> def, source |-> source, pre |-> pre, n |-> built.n + 1]

\* Hir::add_source(url, syntax) of a definition file
StoreAddSource(url, def) ==
    /\ built.n < MaxHirOps
    /\ store' = HirAddSource(store, url, def)
    /\ built' = Built("add", Some(url), Some(def), InsertSource(store, url).keys, Some(InsertSource(store, url)))
    /\ UNCHANGED <<auxVars, wsVars, symVars, concVars, lexer>>

\* Hir::remove_source of the source held for a URL
StoreRemoveSource(url) ==
    /\ built.n < MaxHirOps
    /\ HirSourceOf(store, url) # Null
    /\ store' = HirRemoveSource(store, HirSourceOf(store, url))
    /\ built' = Built("remove", Some(url), None, HirSourceOf(store, url), None)
    /\ UNCHANGED <<auxVars, wsVars, symVars, concVars, lexer>>

\* Hir::clear
StoreClear ==
    /\ built.n < MaxHirOps
    /\ store' = clear(store)
    /\ built' = Built("clear", None, None, Null, None)
    /\ UNCHANGED <<auxVars, wsVars, symVars, concVars, lexer>>

NextHir ==
    \/ \E url \in DefUrls, def \in DefFiles : StoreAddSource(url, def)
    \/ \E url \in DefUrls : StoreRemoveSource(url)
    \/ StoreClear

SpecHir == Init /\ [][NextHir]_vars

----------------------------------------------------------------------------
(* The lexer (syntax.rs): SyntaxKind::lexer over an input of chars, and    *)
(* the Lexer wrapper with its one-token peek.  A token is its kind, its    *)
(* slice and the offset its span starts at.                                *)

MaxInput == 4

Alphabet == {Quote, Backtick, Backslash, "/", "*", "a", "~"}

Inputs == UNION { [1..n -> Alphabet] : n \in 0..MaxInput }

\* lex.remainder() after n chars of the input
Remainder(input, n) == SubSeq(input, n + 1, Len(input))

\* the loop of the LIT_STR callbacks: the 1-based index of the delimiter
\* that ends the string, 0 when the loop runs out (the callback returns None)
RECURSIVE StrCallback(_, _, _, _)
StrCallback(rem, delim, i, escaped) ==
    IF i > Len(rem) THEN 0
    ELSE IF ~escaped /\ rem[i] = delim THEN i
    ELSE StrCallback(rem, delim, i + 1, rem[i] = Backslash)

\* lex.remainder().find("*/"): the number of chars before the first "*/"
FindCommentEnd(rem) ==
    LET hits == { i \in 1..(Len(rem) - 1) : rem[i] = "*" /\ rem[i + 1] = "/" }
    IN  IF hits = {} THEN None ELSE Some((CHOOSE i \in hits : \A j \in hits : i <= j) - 1)

\* the longest run of identifier chars at the head of the text
RECURSIVE IdentLen(_)
IdentLen(rem) == IF rem # <<>> /\ rem[1] = "a" THEN 1 + IdentLen(Tail(rem)) ELSE 0

Token(kind, len) == [kind |-> kind, len |-> len]

\* a token with a callback: the kind and the opener with what the callback
\* bumps, or ERROR over the opener when the callback returns None
WithCallback(kind, opener, bumped) ==
    IF bumped = None THEN Token("ERROR", opener) ELSE Token(kind, opener + bumped[1])

StrToken(rem, delim) ==
    LET i == StrCallback(Tail(rem), delim, 1, FALSE)
    IN  WithCallback("LIT_STR", 1, IF i = 0 THEN None ELSE Some(i))

BlockToken(rem, kind, opener) ==
    LET len == FindCommentEnd(Remainder(rem, opener))
    IN  WithCallback(kind, opener, IF len = None THEN None ELSE Some(len[1] + 2))

\* SyntaxKind::lexer: the token at the head of a text that is not empty,
\* by longest match
LogosToken(rem) ==
    CASE rem[1] = Quote -> StrToken(rem, Quote)
      [] rem[1] = Backtick -> StrToken(rem, Backtick)
      [] rem[1] = "a" -> Token("IDENT", IdentLen(rem))
      [] rem[1] = "/" /\ Len(rem) >= 3 /\ rem[2] = "/" /\ rem[3] = "/" -> Token("COMMENT_LINE_DOC", Len(rem))
      [] rem[1] = "/" /\ Len(rem) >= 2 /\ rem[2] = "/" /\ ~(Len(rem) >= 3 /\ rem[3] = "/")
            -> Token("COMMENT_LINE", Len(rem))
      [] rem[1] = "/" /\ Len(rem) >= 3 /\ rem[2] = "*" /\ rem[3] = "*" -> BlockToken(rem, "COMMENT_BLOCK_DOC", 3)
      [] rem[1] = "/" /\ Len(rem) >= 2 /\ rem[2] = "*" /\ ~(Len(rem) >= 3 /\ rem[3] = "*")
            -> BlockToken(rem, "COMMENT_BLOCK", 2)
      [] rem[1] = "/" /\ ~(Len(rem) >= 2 /\ rem[2] \in {"/", "*"}) -> Token("OP_DIV", 1)
      [] rem[1] = "*" /\ Len(rem) >= 2 /\ rem[2] = "*" -> Token("OP_POW", 2)
      [] rem[1] = "*" /\ ~(Len(rem) >= 2 /\ rem[2] = "*") -> Token("OP_MUL", 1)
      [] OTHER -> Token("ERROR", 1)

\* logos Lexer::next: None at the end of the input, else the token with
\* its slice and span
LogosNext(input, pos) ==
    IF pos >= Len(input) THEN None
    ELSE LET t == LogosToken(Remainder(input, pos))
         IN  Some([kind |-> t.kind, slice |-> SubSeq(input, pos + 1, pos + t.len), start |-> pos,
                   panic |-> pos + t.len > Len(input)])

\* the position of the inner lexer after a next() that gave r
PosAfter(pos, r) == IF r = None THEN pos ELSE pos + Len(r[1].slice)

\* Lexer::new(source), for a source of the bounded set
LexerNew ==
    /\ lexer.input = <<>> /\ lexer.tokens = <<>> /\ lexer.done
    /\ \E input \in Inputs \ {<<>>} :
          lexer' = [input |-> input, pos |-> 0, peeked |-> None, tokens |-> <<>>, done |-> FALSE,
                    call |-> "new", out |-> None, seen |-> None, peeks |-> 0]
    /\ UNCHANGED <<auxVars, wsVars, symVars, concVars, store, built>>

\* the peek() calls made in a row, at most
MaxPeeks == 2

\* a peek() that reads a token from the inner lexer at every call
LexerPeekRereads(lx) ==
    [item |-> LogosNext(lx.input, lx.pos),
     peeked |-> Some(LogosNext(lx.input, lx.pos)),
     pos |-> PosAfter(lx.pos, LogosNext(lx.input, lx.pos))]

\* what peek() returns, and the peeked field and the inner position it leaves
LexerPeekResult(lx) ==
    IF lx.peeked = None
    THEN [item |-> LogosNext(lx.input, lx.pos),
          peeked |-> Some(LogosNext(lx.input, lx.pos)),
          pos |-> PosAfter(lx.pos, LogosNext(lx.input, lx.pos))]
    ELSE [item |-> lx.peeked[1], peeked |-> lx.peeked, pos |-> lx.pos]

\* Lexer::peek
LexerPeek ==
    /\ ~lexer.done
    /\ lexer.peeks < MaxPeeks
    /\ LET r == LexerPeekResult(lexer)
       IN  lexer' = [lexer EXCEPT !.peeked = r.peeked,
                                  !.pos = r.pos,
                                  !.call = "peek",
                                  !.out = r.item,
                                  !.seen = Some(r.item),
                                  !.peeks = @ + 1]
    /\ UNCHANGED <<auxVars, wsVars, symVars, concVars, store, built>>

\* a next() that forgets the token it has peeked
LexerNextDropsPeeked(lx) ==
    [item |-> LogosNext(lx.input, lx.pos), pos |-> PosAfter(lx.pos, LogosNext(lx.input, lx.pos))]

\* what next() returns and the inner position it leaves
LexerNextResult(lx) ==
    IF lx.peeked # None THEN [item |-> lx.peeked[1], pos |-> lx.pos]
    ELSE [item |-> LogosNext(lx.input, lx.pos), pos |-> PosAfter(lx.pos, LogosNext(lx.input, lx.pos))]

\* Iterator::next for Lexer
LexerNext ==
    /\ ~lexer.done
    /\ LET r == LexerNextResult(lexer)
       IN  lexer' = [lexer EXCEPT !.peeked = None,
                                  !.pos = r.pos,
                                  !.tokens = IF r.item = None THEN @ ELSE Append(@, r.item[1]),
                                  !.done = r.item = None,
                                  !.call = "next",
                                  !.out = r.item,
                                  !.seen = None,
                                  !.peeks = 0]
    /\ UNCHANGED <<auxVars, wsVars, symVars, concVars, store, built>>

NextLex ==
    \/ LexerNew
    \/ LexerPeek
    \/ LexerNext

SpecLex == Init /\ [][NextLex]_vars

----------------------------------------------------------------------------
(* Bulk ingestion (Workspace::load_all_files).  The environment gives what *)
(* Environment answers during the call: whether the workspace root is a    *)
(* file path, the result of glob_files per include pattern, the paths that *)
(* are directories, what read_file returns per path; file_rule is the      *)
(* regex of the configuration, given by the paths it matches.              *)

MaxPatterns == 2

PathA == [drive |-> "c", path |-> "a"]

PathB == [drive |-> "c", path |-> "b"]

PathD == [drive |-> "c", path |-> "d"]

\* the paths of the file system, in the order glob_files lists them
AllPaths == <<PathA, PathB, PathD>>

Paths == { AllPaths[i] : i \in DOMAIN AllPaths }

\* what one glob_files call can answer: Err, or the matched paths
GlobResults ==
    {None} \cup { Some(SelectSeq(AllPaths, LAMBDA p : p \in S)) : S \in SUBSET Paths }

RECURSIVE SeqsUpTo(_, _)
SeqsUpTo(S, n) ==
    IF n = 0 THEN {<<>>}
    ELSE SeqsUpTo(S, n - 1) \cup { Append(s, x) : s \in { t \in SeqsUpTo(S, n - 1) : Len(t) = n - 1 }, x \in S }

\* read_file: Err, or the bytes of the file (a text, valid UTF-8 or not)
ReadErr == None

Bytes(utf8, text) == Some([utf8 |-> utf8, text |-> text])

FileContents ==
    { [p \in Paths |-> IF p = PathA THEN a ELSE IF p = PathB THEN b ELSE Bytes(TRUE, ScriptTilde)] :
        a \in {ReadErr, Bytes(FALSE, ScriptFoo), Bytes(TRUE, ScriptFoo)},
        b \in {ReadErr, Bytes(FALSE, DefFoo), Bytes(TRUE, DefFoo)} }

FileRules == {None, Some({PathA, PathD})}

Envs ==
    [root_ok : BOOLEAN, globs : SeqsUpTo(GlobResults, MaxPatterns), file_rule : FileRules,
     dirs : {{}, {PathD}}, files : FileContents]

\* Url::parse(&format!("file://{}", path)): the file URL of a path has the
\* drive and the segments of the path
FileUrl(path) == [drive |-> path.drive, path |-> path.path]

\* Vec<PathBuf>::normalize(): each path normalized
NormalizePaths(paths) == [i \in DOMAIN paths |-> Normalize(paths[i])]

\* the loop over the include patterns: a failing glob is logged and skipped
RECURSIVE GlobAll(_, _)
GlobAll(globs, paths) ==
    IF globs = <<>> THEN paths
    ELSE GlobAll(Tail(globs),
                 IF Head(globs) = None THEN paths
                 ELSE paths \o NormalizePaths(Head(globs)[1]))

\* Vec::dedup: of consecutive equal elements the first stays
RECURSIVE Dedup(_)
Dedup(paths) ==
    IF Len(paths) < 2 THEN paths
    ELSE IF paths[1] = paths[2] THEN Dedup(Tail(paths))
    ELSE <<paths[1]>> \o Dedup(Tail(paths))

\* paths.retain(|p| rule.is_match(p)) when a file_rule is configured
RetainRule(paths, file_rule) ==
    IF file_rule = None THEN paths
    ELSE SelectSeq(paths, LAMBDA p : p \in file_rule[1])

\* the calls made: add_document by the loop, add_document by the re-adds of
\* check_operators, resolve_all
CallAdd(url, text) == [fn |-> "add_document", url |-> url, text |-> text, by |-> "load_all_files"]

CallReAdd(url) == [fn |-> "add_document", url |-> url, text |-> None, by |-> "check_operators"]

CallResolveAll == [fn |-> "resolve_all", url |-> None, text |-> None, by |-> "load_all_files"]

\* add_document from the loop, with the calls it made
Ingested(st, url, text) ==
    LET ws1 == add_document([st.ws EXCEPT !.readded = <<>>], url, text)
    IN  [ws |-> ws1,
         calls |-> (st.calls \o <<CallAdd(url, text)>>)
                   \o [i \in DOMAIN ws1.readded |-> CallReAdd(ws1.readded[i])]]

\* a loop in which a failing read ends the ingestion
RECURSIVE IngestPathsBreak(_, _, _)
IngestPathsBreak(st, paths, env) ==
    IF paths = <<>> THEN st
    ELSE LET path == Head(paths)
             source == env.files[path]
         IN  IF path \in env.dirs THEN IngestPathsBreak(st, Tail(paths), env)
             ELSE IF source = ReadErr THEN st
             ELSE IF ~source[1].utf8 THEN st
             ELSE IngestPathsBreak(Ingested(st, FileUrl(path), source[1].text), Tail(paths), env)

\* the loop over the paths: directories, failing reads and invalid UTF-8
\* are skipped, every other path is added
RECURSIVE IngestPaths(_, _, _)
IngestPaths(st, paths, env) ==
    IF paths = <<>> THEN st
    ELSE LET path == Head(paths)
             source == env.files[path]
         IN  IF path \in env.dirs THEN IngestPaths(st, Tail(paths), env)
             ELSE IF source = ReadErr THEN IngestPaths(st, Tail(paths), env)
             ELSE IF ~source[1].utf8 THEN IngestPaths(st, Tail(paths), env)
             ELSE IngestPaths(Ingested(st, FileUrl(path), source[1].text), Tail(paths), env)

\* the paths the loop goes over
PathsToIngest(env) == RetainRule(Dedup(GlobAll(env.globs, <<>>)), env.file_rule)

\* a load_all_files that resolves before it ingests
load_all_files_resolve_first(ws, env) ==
    IF ~env.root_ok THEN [ws |-> ws, calls |-> <<>>]
    ELSE IngestPaths([ws |-> ws, calls |-> <<CallResolveAll>>], PathsToIngest(env), env)

load_all_files(ws, env) ==
    IF ~env.root_ok THEN [ws |-> ws, calls |-> <<>>]
    ELSE LET st == IngestPaths([ws |-> ws, calls |-> <<>>], PathsToIngest(env), env)
         IN  [st EXCEPT !.calls = Append(@, CallResolveAll)]

\* a workspace is loaded once, after it is created
LoadAllFiles ==
    /\ load.n = 0 /\ documents = <<>>
    /\ \E env \in Envs :
          LET st == load_all_files(Current, env)
          IN  /\ documents' = st.ws.documents
              /\ hir' = st.ws.hir
              /\ custom_operators' = st.ws.custom_operators
              /\ load' = [n |-> 1, env |-> Some(env), calls |-> st.calls]
    /\ UNCHANGED <<last, symVars, concVars, extVars, spaces, classified>>

NextLoad == LoadAllFiles

SpecLoad == Init /\ [][NextLoad]_vars

----------------------------------------------------------------------------
(* The workspaces of the world (Workspaces in world.rs): an IndexMap from  *)
(* root URL to workspace, here the sequence of its keys, and the lookup of *)
(* the workspace of a document.  These URLs are strings, sequences of      *)
(* chars, compared as strings.                                             *)

MaxWorkspaces == 3

\* file:///
FileRootUrl == <<"f", "i", "l", "e", ":", "/", "/", "/">>

\* m:/  (a root of a file system provider with a short scheme)
ShortRootUrl == <<"m", ":", "/">>

\* file:///C:/w  (as the client sent it, the drive letter in upper case)
FolderUrl == FileRootUrl \o <<"C", ":", "/", "w">>

\* file:///c:/w/s
SubFolderUrl == FileRootUrl \o <<"c", ":", "/", "w", "/", "s">>

RootUrls == {FileRootUrl, ShortRootUrl, FolderUrl, SubFolderUrl}

DocumentUrls ==
    { ShortRootUrl \o <<"a">>,
      FileRootUrl \o <<"a">>,
      FileRootUrl \o <<"c", ":", "/", "w", "/", "a">>,
      FolderUrl \o <<"/", "a">>,
      SubFolderUrl \o <<"/", "a">>,
      DEFAULT_WORKSPACE_URL \o <<"a">>,
      <<"x", ":", "/", "a">> }

\* str::starts_with
StartsWith(s, prefix) ==
    Len(prefix) <= Len(s) /\ SubSeq(s, 1, Len(prefix)) = prefix

\* Url::normalize on the string: the drive letter becomes lower case
NormalizeUrl(url) ==
    [i \in DOMAIN url |->
        IF url[i] = "C" /\ i < Len(url) /\ url[i + 1] = ":" THEN "c" ELSE url[i]]

\* Iterator::max_by on the key lengths: of several longest, the last
MaxByLen(keys, hits) ==
    IF hits = {} THEN 0
    ELSE CHOOSE i \in hits :
            /\ \A j \in hits : Len(keys[j]) <= Len(keys[i])
            /\ \A j \in hits : Len(keys[j]) = Len(keys[i]) => j <= i

\* IndexMap::get(key): Some(key) when the map has it
GetKey(keys, key) == IF \E i \in DOMAIN keys : keys[i] = key THEN Some(key) ELSE None

\* the filter of by_document
MatchesDocument(key, url) ==
    StartsWith(url, key) \/ StartsWith(url, NormalizeUrl(key))

\* the filter of by_document_mut
MatchesDocumentMut(key, url) ==
    \/ StartsWith(url, key)
    \/ StartsWith(url, NormalizeUrl(key))
    \/ key = DEFAULT_WORKSPACE_URL

\* Workspaces::by_document: the key of the workspace returned; None when
\* the unwrap of the default workspace panics
by_document(keys, url) ==
    LET hit == MaxByLen(keys, { i \in DOMAIN keys : MatchesDocument(keys[i], url) })
    IN  IF hit = 0 THEN GetKey(keys, DEFAULT_WORKSPACE_URL) ELSE Some(keys[hit])

\* Workspaces::by_document_mut: the key of the workspace returned; None
\* when the unwrap panics
by_document_mut(keys, url) ==
    LET hit == MaxByLen(keys, { i \in DOMAIN keys : MatchesDocumentMut(keys[i], url) })
    IN  IF hit = 0 THEN None ELSE Some(keys[hit])

\* the server is given a workspace folder: IndexMap::insert of a new root
InsertWorkspace(root) ==
    /\ root \notin { spaces.keys[i] : i \in DOMAIN spaces.keys }
    /\ Len(spaces.keys) <= MaxWorkspaces
    /\ spaces' = [keys |-> Append(spaces.keys, root), url |-> None, found |-> None, found_mut |-> None]
    /\ UNCHANGED <<wsVars, symVars, concVars, extVars, load, classified>>

\* a handler looks up the workspace of a document, for reading and for
\* writing
LookupWorkspace(url) ==
    /\ spaces' = [spaces EXCEPT !.url = Some(url),
                                !.found = by_document(spaces.keys, url),
                                !.found_mut = by_document_mut(spaces.keys, url)]
    /\ UNCHANGED <<wsVars, symVars, concVars, extVars, load, classified>>

NextWorld ==
    \/ \E root \in RootUrls : InsertWorkspace(root)
    \/ \E url \in DocumentUrls : LookupWorkspace(url)

SpecWorld == Init /\ [][NextWorld]_vars

----------------------------------------------------------------------------
(* SyntaxKind (syntax.rs): a #[repr(u16)] enum whose derived order is the  *)
(* order of declaration.  A kind is its discriminant; the regions of the   *)
(* enum are ranges of discriminants.                                       *)

\* the first kind, and the first of the region "Keywords"
KW_THIS == 0

\* the last kind of the region "Keywords"
KW_EVAL == 31

\* the first kind of the region "Reserved keywords"
KW_VAR == 32

\* the last kind of the region "Reserved keywords"
KW_NIL == 56

\* the first kind of the region "Punctuation and operators"
PUNCT_COMMA == 57

\* the last kind
__LAST == 157

SyntaxKinds == KW_THIS..__LAST

\* SyntaxKind::is_reserved_keyword
is_reserved_keyword(kind) == kind >= KW_VAR /\ kind < KW_NIL

\* is_reserved_keyword is asked of a kind
Classify(kind) ==
    /\ classified' = Some([kind |-> kind, reserved |-> is_reserved_keyword(kind)])
    /\ UNCHANGED <<wsVars, symVars, concVars, extVars, load, spaces>>

NextKind == \E kind \in SyntaxKinds : Classify(kind)

SpecKind == Init /\ [][NextKind]_vars

----------------------------------------------------------------------------
(* What the claims speak about.                                            *)

Entry(docs, url) == docs[IndexOfKey(docs, url)]

ScriptEntries(docs) == SelectSeq(docs, IsScriptDoc)

DefEntries(docs) == SelectSeq(docs, IsDefDoc)

ScriptSources(h) == { h.sources[i] : i \in { j \in DOMAIN h.sources : h.sources[j].kind = "Script" } }

\* the workspace as check_operators found it in the step that just ran:
\* the handler's body applied to the state before the step
Mid ==
    IF last'.op = "add"
    THEN AddDocumentBody(Current, last'.url[1], last'.text[1])
    ELSE RemoveDocumentBody(Current, last'.url[1])

\* the (name, binding power) pairs of the cache entries with an identifier
\* name, stated entry by entry
IsTableOf(table, ops) ==
    /\ \A e \in table : IsValidIdent(e[1]) /\ \E t \in ops : t[1] = e[1] /\ t[4] = e[2]
    /\ \A t \in ops : IsValidIdent(t[1]) => <<t[1], t[4]>> \in table

----------------------------------------------------------------------------
(* C1: when adding a definition document changes the operator set, every   *)
(* script document that was in the workspace is still there, was re-added  *)
(* by add_document during the step, and carries a Parse of its own text    *)
(* made with the table of the updated custom_operators.                    *)
C1_ScriptsReparsedWithNewTable ==
    [][ (last'.op = "add" /\ is_rhai_def(last'.text[1]) /\ last'.changed) =>
          /\ custom_operators' # custom_operators
          /\ \A i \in DOMAIN documents :
                (~documents[i].is_def /\ documents[i].url # last'.url[1]) =>
                   /\ documents[i].url \in Keys(documents')
                   /\ \E k \in DOMAIN last'.readded : last'.readded[k] = documents[i].url
                   /\ ~Entry(documents', documents[i].url).is_def
                   /\ Entry(documents', documents[i].url).parse.green = documents[i].parse.green
                   /\ IsTableOf(Entry(documents', documents[i].url).parse.operators,
                                custom_operators')
      ]_vars

\* a definition was added, the operator set changed, and a script that was
\* re-added now parses `a foo b` as a binary expression
C1_Witness ==
    /\ last.op = "add" /\ last.changed /\ is_rhai_def(last.text[1])
    /\ \E i \in DOMAIN documents :
          /\ ~documents[i].is_def
          /\ documents[i].parse.expr = "EXPR_BIN"
          /\ \E k \in DOMAIN last.readded : last.readded[k] = documents[i].url

(* C2: when check_operators runs and the set enumerated from the HIR       *)
(* equals the cache, nothing is re-added and custom_operators, the script  *)
(* entries of documents and the script sources of the HIR stay as          *)
(* check_operators found them.                                             *)
C2_EqualSetNoReparse ==
    [][ (last'.checks > 0 /\ NewOperators(Mid.hir) = Mid.custom_operators) =>
          /\ last'.readded = <<>>
          /\ custom_operators' = Mid.custom_operators
          /\ ScriptEntries(documents') = ScriptEntries(Mid.documents)
          /\ documents' = Mid.documents
          /\ ScriptSources(hir') = ScriptSources(Mid.hir)
      ]_vars

\* the same definition was added again next to a script: check_operators
\* ran, found the set it had cached, and the script is still there
C2_Witness ==
    /\ last.op = "add" /\ last.text = Some(DefFoo) /\ last.checks > 0 /\ ~last.changed
    /\ custom_operators # {}
    /\ \E i \in DOMAIN documents : ~documents[i].is_def /\ documents[i].parse.expr = "EXPR_BIN"

(* C3: custom_operators equals the set of (name, lhs_ty, rhs_ty,           *)
(* binding_powers) tuples of the Op symbols in the HIR.  (An Op symbol     *)
(* without a right-hand type has no such tuple; check_operators skips it,  *)
(* and it is not counted against the claim here.)                          *)
C3_CacheEqualsHirOperators == custom_operators = NewOperators(hir)


SourceDataAt(h, url) == { h.sources[i] : i \in SourcesAt(h, url) }

FooTuple == <<Foo, "int", "int", <<10, 11>>>>

C6_OneSourcePerUrl ==
    /\ \A i, j \in DOMAIN hir.sources :
          Normalize(hir.sources[i].url) = Normalize(hir.sources[j].url) => i = j
    /\ \A i, j \in DOMAIN documents : documents[i].url = documents[j].url => i = j
    /\ last.op = "add" =>
          /\ Cardinality({ i \in DOMAIN documents : documents[i].url = last.url[1] }) = 1
          /\ Entry(documents, last.url[1]).parse.green = last.text[1]
          /\ Entry(documents, last.url[1]).is_def = is_rhai_def(last.text[1])

\* a document was added under a URL the workspace already held, and a
\* source for its normalized URL is in the HIR
C6_Witness ==
    /\ last.op = "add" /\ last.known
    /\ SourcesAt(hir, Normalize(last.url[1])) # {}
    /\ Len(documents) = 2

(* C7: the operator table add_document hands to the parser is the (name,   *)
(* binding power) pairs of the entries of custom_operators whose name is a *)
(* valid identifier, for the document added and for each script re-added.  *)
C7_TableIsValidIdentEntries ==
    [][ /\ last'.op = "add" =>
             IsTableOf(Entry(documents', last'.url[1]).parse.operators, custom_operators)
        /\ \A k \in DOMAIN last'.readded :
             IsTableOf(Entry(documents', last'.readded[k]).parse.operators, custom_operators')
      ]_vars

\* a document was parsed with the table {foo} while the cache also held an
\* operator whose name is not an identifier
C7_Witness ==
    /\ last.op = "add"
    /\ Entry(documents, last.url[1]).parse.operators = {<<Foo, <<10, 11>>>>}
    /\ \E t \in custom_operators : ~IsValidIdent(t[1])

C10_ProxyOneHop ==
    result # None =>
       LET r == result[1]
           own == symbols[r.index]
       IN  /\ r.via[1] = r.index
           /\ IF own.kind = "Proxy"
              THEN r.via = <<r.index, own.target>> /\ r.data = symbols[own.target]
              ELSE r.via = <<r.index>> /\ r.data = own
           /\ Len(r.via) <= 2

\* a proxy was indexed and the data of its target came back
C10_Witness ==
    /\ result # None
    /\ symbols[result[1].index].kind = "Proxy"
    /\ result[1].data.kind = "Fn"
    /\ Len(result[1].via) = 2


Reading == { t \in Tasks : pc[t] = "reading" }

Writing == { t \in Tasks : pc[t] \notin {"idle", "reading"} }

(* C9: the workspace changes only in a step of the task that holds the     *)
(* write guard, and no read guard is held then; a query that holds a read  *)
(* guard sees the workspace as the requests, run whole and one after       *)
(* another in the order their write guards were acquired, leave it; and    *)
(* so is the workspace whenever no write guard is held.                    *)
C9_WriteGuardSerializes ==
    /\ [][ <<documents, hir, custom_operators>>' # <<documents, hir, custom_operators>> =>
             /\ lock.writer # None /\ lock.readers = {}
             /\ pc[lock.writer[1]] # pc'[lock.writer[1]] \/ work' # work ]_vars
    /\ [](Reading # {} => Triple(Current) = serial.state)
    /\ [](lock.writer = None => Triple(Current) = serial.state)
    /\ [](Cardinality(Writing) <= 1 /\ (Writing # {} => Reading = {}))

\* a query waits for the read guard while check_operators has taken the
\* scripts out of documents and has not re-added them yet
C9_Witness ==
    /\ \E t \in Tasks : pc[t] = "readd" /\ work[1].todo # <<>>
    /\ \E t \in Tasks : pc[t] = "idle" /\ ~CanAcquireRead(t)
    /\ Triple(Current) # serial.state
    /\ ScriptEntries(documents) = <<>>


----------------------------------------------------------------------------
(* The HIR store and the lowering of definition files.                     *)

\* the module declaration a definition file was lowered with, None if the
\* file has none
DefModOf(def) == IF def.decl = None THEN None ELSE def.decl[1].def_module

\* the module of the source the last add made
BuiltModule == store.sources[built.source].module

IsStaticModule(h, m) ==
    \/ h.modules[m].kind = KindStatic
    \/ h.modules[m].kind.tag = "Url" /\ h.modules[m].kind.url.scheme = STATIC_URL_SCHEME

(* C11: the static module is a live module of kind Static and every        *)
(* built-in type is a live type, in every state reached from Hir::new by   *)
(* adding sources, removing sources and clearing.                          *)
C11_BuiltinsAlwaysLive ==
    /\ Live(store.modules, store.static_module)
    /\ store.modules[store.static_module].kind = KindStatic
    /\ Live(store.scopes, store.modules[store.static_module].scope)
    /\ \A n \in DOMAIN TypeNames :
          /\ Live(store.types, store.builtin_types[n])
          /\ store.types[store.builtin_types[n]] = TypeNames[n]

\* the store was cleared after a definition file was added: the static
\* module and the types are new ones
C11_Witness ==
    /\ built.op = "clear" /\ built.n = 2
    /\ store.static_module # HirNew.static_module
    /\ store.builtin_types # HirNew.builtin_types
    /\ Live(store.modules, store.static_module)

TopLevelKinds == {"Import", "Decl.is_const", "Fn", "Op"}

(* C12: there is at most one module per kind; a definition file declaring  *)
(* `module static` gets the static module as its source's module; and the  *)
(* symbols made for the statements of a file are registered in the root    *)
(* scope of its source's module.                                           *)
C12_ModulesDedupedByKind ==
    /\ \A m1, m2 \in DOMAIN store.modules :
          store.modules[m1].kind = store.modules[m2].kind => m1 = m2
    /\ (built.op = "add" /\ DefModOf(built.def[1]) # None /\ DefModOf(built.def[1])[1].kw_static)
          => BuiltModule = store.static_module
    /\ \A s \in DOMAIN store.symbols :
          (store.symbols[s].source # Null /\ store.symbols[s].kind \in TopLevelKinds) =>
             LET m == store.sources[store.symbols[s].source].module
             IN  /\ Live(store.modules, m)
                 /\ store.symbols[s].parent_scope = store.modules[m].scope
                 /\ s \in store.scopes[store.modules[m].scope].hoisted_symbols

\* two definition files declaring `module static` are in the store: both
\* sources have the static module, whose root scope holds symbols of both
C12_Witness ==
    \E s1, s2 \in DOMAIN store.sources :
       /\ s1 # s2
       /\ store.sources[s1].module = store.static_module
       /\ store.sources[s2].module = store.static_module
       /\ \E x, y \in store.scopes[store.modules[store.static_module].scope].hoisted_symbols :
             store.symbols[x].source = s1 /\ store.symbols[y].source = s2

(* C13 as stated: the module a definition file is lowered into has the     *)
(* static scheme exactly when the declaration has the `static` keyword or  *)
(* is named by an identifier alone; a module named by a string literal or  *)
(* by nothing has not, and is not in the static scope.                     *)
C13_StaticSchemeIffStaticOrIdent ==
    (built.op = "add" /\ DefModOf(built.def[1]) # None /\ BuiltModule # Null) =>
       LET dm == DefModOf(built.def[1])[1]
           by_keyword_or_ident == dm.kw_static \/ (dm.lit_str = None /\ dm.ident # None)
       IN  /\ IsStaticModule(store, BuiltModule) <=> by_keyword_or_ident
           /\ ~by_keyword_or_ident => BuiltModule \notin StaticScopeModules(store)

\* the text between the delimiters of a string literal
LitContent(lit_str) == SubSeq(lit_str, 2, Len(lit_str) - 1)

\* the module kind the policy of the specification names
PolicyKind(url, dm) ==
    IF dm.kw_static THEN Some(KindStatic)
    ELSE IF dm.lit_str # None
         THEN IF resolve_import_url(url, Unescape(LitContent(dm.lit_str[1]))) = None THEN None
              ELSE Some(KindUrl(resolve_import_url(url, Unescape(LitContent(dm.lit_str[1])))[1]))
    ELSE IF dm.ident # None THEN Some(KindUrl(Url(STATIC_URL_SCHEME, dm.ident[1])))
    ELSE Some(KindUrl(UnwrapOr(script_url(url), url)))

(* C14 as stated: the module kind of a declaration is Static for the       *)
(* `static` keyword, else the URL the unescaped text of a string literal   *)
(* resolves to, else static://<ident>, else the derived script URL.        *)
C14_ModuleKindPolicy ==
    (built.op = "add" /\ DefModOf(built.def[1]) # None) =>
       LET kind == PolicyKind(built.url[1], DefModOf(built.def[1])[1])
       IN  kind # None =>
              /\ BuiltModule # Null
              /\ store.modules[BuiltModule].kind = kind[1]

Unresolvable(url, def) ==
    /\ DefModOf(def) # None
    /\ ~DefModOf(def)[1].kw_static
    /\ DefModOf(def)[1].lit_str # None
    /\ resolve_import_url(url, Unescape(LitStrContent(DefModOf(def)[1].lit_str[1]))) = None

(* C15: when the string literal naming the module does not resolve, the    *)
(* store is left as it was when the source had been made: no module is     *)
(* made or changed, the source has the null module, no symbol and no scope *)
(* carries the source, and the source is in the store.                     *)
C15_UnresolvedModuleAborts ==
    (built.op = "add" /\ Unresolvable(built.url[1], built.def[1])) =>
       /\ store = built.pre[1]
       /\ Live(store.sources, built.source)
       /\ store.sources[built.source].module = Null
       /\ \A s \in DOMAIN store.symbols : store.symbols[s].source # built.source
       /\ \A c \in DOMAIN store.scopes : store.scopes[c].source # built.source

\* `module "[";` with a function statement was added after another file:
\* its source is there, without a module
C15_Witness ==
    /\ built.op = "add" /\ built.def = Some(DefLitBad) /\ built.n = 2
    /\ Live(store.sources, built.source)
    /\ store.sources[built.source].module = Null
    /\ Cardinality(DOMAIN store.sources) = 3

DefSymbolKinds == {"Import", "Decl.is_import", "Decl.is_const", "Fn", "Decl.is_param", "Op"}

(* C16 as stated: every symbol made for a definition file, of whatever     *)
(* kind, has export = true.                                                *)
C16_AllDefSymbolsExported ==
    \A s \in DOMAIN store.symbols :
       (store.symbols[s].source # Null /\ store.symbols[s].kind \in DefSymbolKinds)
          => store.symbols[s].export

\* the scope a parent link leads to: the parent scope, or the parent_scope
\* of the owning symbol; Null when the link dangles
ParentScopeOf(h, scope) ==
    LET p == h.scopes[scope].parent[1]
    IN  IF p.tag = "Scope" THEN (IF Live(h.scopes, p.key) THEN p.key ELSE Null)
        ELSE IF Live(h.symbols, p.key) /\ Live(h.scopes, h.symbols[p.key].parent_scope)
             THEN h.symbols[p.key].parent_scope ELSE Null

\* the scope without a parent that the parent links of a scope lead to
\* within fuel steps, Null if there is none
RECURSIVE Climb(_, _, _)
Climb(h, scope, fuel) ==
    IF scope = Null THEN Null
    ELSE IF h.scopes[scope].parent = None THEN scope
    ELSE IF fuel = 0 THEN Null
    ELSE Climb(h, ParentScopeOf(h, scope), fuel - 1)

(* C17: every scope made for a source (an import scope or a function       *)
(* scope) has a parent, and its parent links lead, in no more steps than   *)
(* there are scopes, to the root scope of the module of its source.        *)
C17_ScopesReachModuleRoot ==
    \A c \in DOMAIN store.scopes :
       store.scopes[c].source # Null =>
          LET m == store.sources[store.scopes[c].source].module
          IN  /\ store.scopes[c].parent # None
              /\ Live(store.modules, m)
              /\ Climb(store, c, Cardinality(DOMAIN store.scopes)) = store.modules[m].scope

\* an import scope and a function scope are in the store, each owned by
\* its symbol
C17_Witness ==
    /\ \E c \in DOMAIN store.scopes :
          /\ store.scopes[c].parent # None
          /\ store.symbols[store.scopes[c].parent[1].key].kind = "Import"
          /\ store.scopes[c].hoisted_symbols # {}
    /\ \E c \in DOMAIN store.scopes :
          /\ store.scopes[c].parent # None
          /\ store.symbols[store.scopes[c].parent[1].key].kind = "Fn"
          /\ Len(store.scopes[c].symbols) = 2


----------------------------------------------------------------------------
(* The lexer.                                                              *)

\* the slices of the tokens, one after another
RECURSIVE ConcatSlices(_)
ConcatSlices(tokens) ==
    IF tokens = <<>> THEN <<>> ELSE Head(tokens).slice \o ConcatSlices(Tail(tokens))

\* the slice of a token that was peeked and not yet taken
PeekedSlice == IF lexer.peeked = None \/ lexer.peeked[1] = None THEN <<>> ELSE lexer.peeked[1][1].slice

(* C18: the tokens yielded so far, with a token peeked, are the input up   *)
(* to the position of the lexer, slice by slice; no token is empty and no  *)
(* bump leaves the input, so the stream has at most as many tokens as the  *)
(* input has chars; and at the end the slices are the input.               *)
C18_SlicesConcatToInput ==
    /\ ConcatSlices(lexer.tokens) \o PeekedSlice = SubSeq(lexer.input, 1, lexer.pos)
    /\ \A i \in DOMAIN lexer.tokens : lexer.tokens[i].slice # <<>> /\ ~lexer.tokens[i].panic
    /\ Len(lexer.tokens) <= Len(lexer.input)
    /\ lexer.done => ConcatSlices(lexer.tokens) = lexer.input

\* an input was lexed to its end into a string, an error and an
\* identifier
C18_Witness ==
    /\ lexer.done /\ Len(lexer.input) = MaxInput
    /\ \E i, j, k \in DOMAIN lexer.tokens :
          /\ lexer.tokens[i].kind = "LIT_STR"
          /\ lexer.tokens[j].kind = "ERROR"
          /\ lexer.tokens[k].kind = "IDENT"

\* the index of the first delimiter of the text that no backslash escapes,
\* a backslash that is itself escaped escaping nothing; 0 if there is none
RECURSIVE Terminator(_, _, _, _)
Terminator(rem, delim, i, escaped) ==
    IF i > Len(rem) THEN 0
    ELSE IF ~escaped /\ rem[i] = delim THEN i
    ELSE Terminator(rem, delim, i + 1, ~escaped /\ rem[i] = Backslash)

(* C19 as stated: a token that starts at a string delimiter, when the      *)
(* input has a closing delimiter after it that is not escaped, is a        *)
(* LIT_STR that ends at the first such delimiter, `\\` being an escaped    *)
(* backslash that escapes nothing.                                         *)
C19_StringEndsAtFirstUnescaped ==
    \A i \in DOMAIN lexer.tokens :
       LET t == lexer.tokens[i]
           after == Remainder(lexer.input, t.start + 1)
           end == Terminator(after, t.slice[1], 1, FALSE)
       IN  (t.slice[1] \in {Quote, Backtick} /\ end # 0) =>
              t.kind = "LIT_STR" /\ Len(t.slice) = 1 + end

(* C20 as stated: every ERROR token spans exactly one char of the input.   *)
C20_ErrorSpansOneChar ==
    \A i \in DOMAIN lexer.tokens :
       lexer.tokens[i].kind = "ERROR" => Len(lexer.tokens[i].slice) = 1

----------------------------------------------------------------------------

\* the paths some include pattern matched, normalized
Matched(env) ==
    UNION { { Normalize(env.globs[k][1][i]) : i \in DOMAIN env.globs[k][1] } :
              k \in { j \in DOMAIN env.globs : env.globs[j] # None } }

\* the file of the path can be read as UTF-8 text
Readable(env, p) == env.files[p] # ReadErr /\ env.files[p][1].utf8

\* the path is one load_all_files has to ingest
ToIngest(env, p) ==
    /\ env.root_ok
    /\ p \in Matched(env)
    /\ p \notin env.dirs
    /\ env.file_rule = None \/ p \in env.file_rule[1]
    /\ Readable(env, p)

\* the add_document calls the loop of load_all_files made for the path
AddsOf(calls, p) ==
    { i \in DOMAIN calls : calls[i].fn = "add_document" /\ calls[i].by = "load_all_files"
                             /\ calls[i].url = FileUrl(p) }

\* the include patterns that matched the path
PatternsMatching(env, p) ==
    { k \in DOMAIN env.globs :
        env.globs[k] # None /\ \E i \in DOMAIN env.globs[k][1] : Normalize(env.globs[k][1][i]) = p }

(* C21: load_all_files calls add_document exactly once for every path that *)
(* some include pattern matched, that is no directory, that file_rule      *)
(* accepts and that can be read, however many patterns matched it, and not *)
(* at all for any other path.                                              *)
C21_EachPathIngestedOnce ==
    load.n > 0 =>
        \A p \in Paths :
            Cardinality(AddsOf(load.calls, p)) = IF ToIngest(load.env[1], p) THEN 1 ELSE 0

\* the include patterns whose glob failed
FailedGlobs(env) == { k \in DOMAIN env.globs : env.globs[k] = None }

\* the document of the path is in the workspace: an entry and a source
IsIngested(p) ==
    /\ FileUrl(p) \in Keys(documents)
    /\ source_of(hir, Normalize(FileUrl(p))) # 0

\* nothing of the path is in the workspace
IsAbsent(p) ==
    /\ FileUrl(p) \notin Keys(documents)
    /\ source_of(hir, Normalize(FileUrl(p))) = 0

(* C22: when load_all_files has run on a workspace root that is a file     *)
(* path, a path whose read failed or whose bytes are not UTF-8 has no      *)
(* entry in documents, no source in the HIR and no add_document call;      *)
(* every path that a successful glob matched, that is no directory, that   *)
(* file_rule accepts and that can be read is in documents and in the HIR,  *)
(* whatever failed for other patterns and paths; and the call ran to its   *)
(* last statement.                                                         *)
C22_FailuresSkipOnlyTheirOwn ==
    (load.n > 0 /\ load.env[1].root_ok) =>
        /\ \A p \in Paths :
              /\ ~Readable(load.env[1], p) => IsAbsent(p) /\ AddsOf(load.calls, p) = {}
              /\ ToIngest(load.env[1], p) => IsIngested(p) /\ AddsOf(load.calls, p) # {}
        /\ load.calls # <<>>
        /\ load.calls[Len(load.calls)] = CallResolveAll

\* a load in which one glob failed, one read failed, one file was not
\* UTF-8, all three paths were matched, and the third was ingested
C22_Witness ==
    /\ load.n > 0 /\ load.env[1].root_ok
    /\ FailedGlobs(load.env[1]) # {}
    /\ Matched(load.env[1]) = Paths
    /\ load.env[1].files[PathA] = ReadErr
    /\ load.env[1].files[PathB] = Bytes(FALSE, DefFoo)
    /\ ToIngest(load.env[1], PathD)
    /\ IsIngested(PathD)
    /\ IsAbsent(PathA) /\ IsAbsent(PathB)

\* the positions of the add_document calls, those of check_operators included
AddCalls(calls) == { i \in DOMAIN calls : calls[i].fn = "add_document" }

(* C25: when load_all_files has called add_document at least once, it has  *)
(* called resolve_all after the last add_document call, the re-adds of     *)
(* check_operators included, as its last call before it returned.          *)
C25_ResolveAllAfterLastAdd ==
    (load.n > 0 /\ AddCalls(load.calls) # {}) =>
        /\ load.calls[Len(load.calls)] = CallResolveAll
        /\ \A i \in AddCalls(load.calls) : i < Len(load.calls)

\* a load that ingested a script and then a definition, whose
\* check_operators re-added the script, and resolved after that
C25_Witness ==
    /\ load.n > 0
    /\ \E i, j \in AddCalls(load.calls) :
          /\ i < j
          /\ load.calls[i].by = "load_all_files"
          /\ load.calls[j].by = "check_operators"
          /\ load.calls[j].url = load.calls[i].url
    /\ load.calls[Len(load.calls)] = CallResolveAll

\* the token stream of the inner lexer from a position on
RECURSIVE TokenStream(_, _)
TokenStream(input, pos) ==
    IF LogosNext(input, pos) = None THEN <<>>
    ELSE <<LogosNext(input, pos)[1]>> \o TokenStream(input, PosAfter(pos, LogosNext(input, pos)))

\* the step is a call of peek() or next() on the Lexer
IsLexerCall(name) == lexer' # lexer /\ lexer'.call = name

(* C23: over any interleaving of peek() and next(), next() returns the     *)
(* tokens of the inner lexer in order, none lost and none twice, and None  *)
(* exactly after the last; a peek() that follows a peek() with no next()   *)
(* in between returns what that one returned, and the next() that follows  *)
(* a peek() returns what it returned, at the end of the input too.         *)
C23_OneTokenPushback ==
    [][ /\ (IsLexerCall("peek") /\ lexer.seen # None) => lexer'.out = lexer.seen[1]
        /\ (IsLexerCall("next") /\ lexer.seen # None) => lexer'.out = lexer.seen[1]
        /\ IsLexerCall("next") =>
              LET stream == TokenStream(lexer.input, 0)
                  n == Len(lexer.tokens)
              IN  /\ lexer.tokens = SubSeq(stream, 1, n)
                  /\ lexer'.out = IF n < Len(stream) THEN Some(stream[n + 1]) ELSE None
                  /\ lexer'.tokens = SubSeq(stream, 1, Len(lexer'.tokens))
      ]_vars

\* two peeks in a row at the end of an input whose tokens, two or more,
\* next() has all returned: both peeks gave None
C23_Witness ==
    /\ lexer.call = "peek" /\ lexer.peeks = 2
    /\ lexer.out = None /\ lexer.seen = Some(None)
    /\ Len(lexer.tokens) >= 2
    /\ lexer.tokens = TokenStream(lexer.input, 0)

\* the place of the first token of one of the kinds after the first token
\* of the statement, 0 when there is none
FirstAfterOp(toks, kinds) ==
    LET hits == { i \in 2..Len(toks) : toks[i].kind \in kinds }
    IN  IF hits = {} THEN 0 ELSE CHOOSE i \in hits : \A j \in hits : i <= j

\* the name the operator definition declares: of the first identifier and
\* the first infix-capable punctuation token, the one that comes first
DeclaredOpName(toks) ==
    LET ident == FirstAfterOp(toks, {"IDENT"})
        punct == FirstAfterOp(toks, InfixKinds)
    IN  IF ident = 0 /\ punct = 0 THEN None
        ELSE IF ident = 0 THEN Some(toks[punct].text)
        ELSE IF punct = 0 THEN Some(toks[ident].text)
        ELSE IF ident < punct THEN Some(toks[ident].text) ELSE Some(toks[punct].text)

\* the Op symbols of the source the last add made
BuiltOps == { s \in DOMAIN store.symbols :
                store.symbols[s].source = built.source /\ store.symbols[s].kind = "Op" }

\* the operator definitions of the file the last add was given
OpStatements(def) == { i \in DOMAIN def.statements : def.statements[i].def = "Op" }

(* C24: when a definition file has been added and its module resolved, the *)
(* source has, for every name, as many Op symbols of that name as the file *)
(* has operator definitions declaring it, the declared name being the      *)
(* first identifier or infix-capable punctuation token after `op`,         *)
(* whichever comes first, and no Op symbol for a definition without such a *)
(* token; each of these symbols is exported and is a symbol of the         *)
(* module's scope.                                                         *)
C24_OpNameIsFirstIdentOrInfix ==
    (built.op = "add" /\ BuiltModule # Null) =>
        LET stmts == built.def[1].statements
            scope == store.modules[BuiltModule].scope
            names == { store.symbols[s].name : s \in BuiltOps }
                       \cup { DeclaredOpName(stmts[i].toks)[1] :
                                i \in { j \in OpStatements(built.def[1]) :
                                          DeclaredOpName(stmts[j].toks) # None } }
        IN  /\ \A name \in names :
                  Cardinality({ s \in BuiltOps : store.symbols[s].name = name })
                    = Cardinality({ i \in OpStatements(built.def[1]) :
                                      DeclaredOpName(stmts[i].toks) = Some(name) })
            /\ \A s \in BuiltOps :
                  /\ store.symbols[s].export
                  /\ store.symbols[s].parent_scope = scope
                  /\ s \in store.scopes[scope].hoisted_symbols

\* the file with operators named by an identifier (twice), by `+` before
\* an identifier, by `=` after error tokens and before an identifier, and
\* with `op ;`, was added: four Op symbols
C24_Witness ==
    /\ built.op = "add" /\ built.def = Some(DefOps) /\ BuiltModule # Null
    /\ Cardinality(BuiltOps) = 4
    /\ { store.symbols[s].name : s \in BuiltOps } = {Foo, <<"+">>, Assign}

(* C26: documents and the HIR agree: every entry of documents has a source *)
(* in the HIR under its normalized URL, made from the Parse the entry      *)
(* holds, and every source of the HIR is under the normalized URL of an    *)
(* entry of documents.                                                     *)
C26_DocumentsAndHirAgree ==
    /\ \A i \in DOMAIN documents :
          /\ source_of(hir, Normalize(documents[i].url)) # 0
          /\ hir.sources[source_of(hir, Normalize(documents[i].url))].syntax = documents[i].parse
    /\ \A j \in DOMAIN hir.sources :
          \E i \in DOMAIN documents : Normalize(documents[i].url) = hir.sources[j].url

\* how often the URL is among the re-added ones
TimesReAdded(readded, url) == Cardinality({ k \in DOMAIN readded : readded[k] = url })

(* C27: a handler that runs check_operators runs it once: the re-adds do   *)
(* not enter it again.  When the operator set differs from the cache,      *)
(* every script document is re-added exactly once and nothing else is;     *)
(* when it is equal, nothing is re-added.  When check_operators has        *)
(* returned, documents has the URLs it had when check_operators was        *)
(* called, and every document has the text and the is_def flag it had.     *)
C27_CheckOperatorsReAddsOnce ==
    [][ last'.checks > 0 =>
          \A mid \in {Mid} :
              /\ last'.checks = 1
              /\ IF NewOperators(mid.hir) = mid.custom_operators
                 THEN last'.readded = <<>>
                 ELSE /\ Len(last'.readded) = Len(ScriptEntries(mid.documents))
                      /\ \A i \in DOMAIN mid.documents :
                            TimesReAdded(last'.readded, mid.documents[i].url)
                              = IF mid.documents[i].is_def THEN 0 ELSE 1
              /\ Keys(documents') = Keys(mid.documents)
              /\ Len(documents') = Len(mid.documents)
              /\ \A i \in DOMAIN mid.documents :
                    /\ GreenToString(Entry(documents', mid.documents[i].url).parse.green)
                         = GreenToString(mid.documents[i].parse.green)
                    /\ Entry(documents', mid.documents[i].url).is_def = mid.documents[i].is_def
      ]_vars

\* check_operators ran once in the last handler, found a changed operator
\* set and re-added the script of the workspace, which is still there next
\* to the definition
C27_Witness ==
    /\ last.checks = 1 /\ last.changed
    /\ Len(last.readded) = 1
    /\ \E i, j \in DOMAIN documents :
          /\ ~documents[i].is_def /\ documents[i].url = last.readded[1]
          /\ documents[j].is_def

\* the roots of the map that are a prefix of the URL, raw or normalized,
\* the default workspace apart
PrefixRoots(keys, url) ==
    { i \in DOMAIN keys : keys[i] # DEFAULT_WORKSPACE_URL /\ MatchesDocument(keys[i], url) }

(* C28: for a looked-up document URL, by_document and by_document_mut      *)
(* return the same workspace and neither panics; the workspace is the      *)
(* default one exactly when no other root is a prefix of the URL, and      *)
(* otherwise one whose root is a prefix of the URL and as long as the      *)
(* longest such root.                                                      *)
C28_SameWorkspaceForReadAndWrite ==
    spaces.url # None =>
        /\ spaces.found # None /\ spaces.found_mut # None
        /\ spaces.found = spaces.found_mut
        /\ IF PrefixRoots(spaces.keys, spaces.url[1]) = {}
           THEN spaces.found = Some(DEFAULT_WORKSPACE_URL)
           ELSE \E i \in PrefixRoots(spaces.keys, spaces.url[1]) :
                   /\ spaces.found = Some(spaces.keys[i])
                   /\ \A j \in PrefixRoots(spaces.keys, spaces.url[1]) :
                         Len(spaces.keys[j]) <= Len(spaces.keys[i])

(* C29: after clear(), the store is as Hir::new() makes it: the handles    *)
(* static_module, virtual_source and builtin_types are live keys of the    *)
(* arenas, and the arenas hold the static module with its scope, the       *)
(* virtual source and the built-in types, and nothing else.                *)
C29_ClearRestoresNew ==
    built.op = "clear" =>
        /\ Live(store.modules, store.static_module)
        /\ Live(store.sources, store.virtual_source)
        /\ \A n \in DOMAIN TypeNames : Live(store.types, store.builtin_types[n])
        /\ DOMAIN store.modules = {store.static_module}
        /\ DOMAIN store.scopes = {store.modules[store.static_module].scope}
        /\ DOMAIN store.symbols = {}
        /\ DOMAIN store.sources = {store.virtual_source}
        /\ DOMAIN store.types = { store.builtin_types[n] : n \in DOMAIN TypeNames }
        /\ store.sources[store.virtual_source].url = VirtualUrl
        /\ store.sources[store.virtual_source].module = store.static_module

\* the kinds declared in the region "Reserved keywords" of SyntaxKind
ReservedKeywordsRegion == KW_VAR..KW_NIL

(* C30: is_reserved_keyword() answers true for the kinds of the region     *)
(* "Reserved keywords", KW_VAR to KW_NIL with both ends, and false for     *)
(* every other kind.                                                       *)
C30_ReservedIffInRegion ==
    classified # None =>
        (classified[1].reserved <=> classified[1].kind \in ReservedKeywordsRegion)

====
